---- MODULE Spec2Model ----
(***************************************************************************)
(* Model of the CRL bulk list importer of GnuTLS (lib/x509/crl.c, kept in  *)
(* src/src/libopts/ao-strs.c): gnutls_x509_crl_init, gnutls_x509_crl_deinit,*)
(* gnutls_x509_crl_import, gnutls_x509_crl_list_import and                 *)
(* gnutls_x509_crl_list_import2.                                           *)
(*                                                                         *)
(* A buffer is a sequence of symbols.  The PEM boundary marker             *)
(* "-----BEGIN X509 CRL" is the two-symbol sequence <<"-","B">> (like the  *)
(* real marker it has no proper prefix that is also a suffix); the body of *)
(* a block together with its footer is one symbol: "v" is base64 text that *)
(* decodes to a well-formed CertificateList, "d" is base64 text that       *)
(* decodes to bytes the DER decoder rejects; anything else after a marker  *)
(* makes the PEM codec fail.  A DER buffer is decoded from its first       *)
(* symbol, "v" being a well-formed CertificateList.                        *)
(*                                                                         *)
(* Pointers: a handle is the index of its record in heap; NULL is 0; a     *)
(* slot of the handle array that was never written holds GARBAGE.  ptr is  *)
(* the 0-based offset into data, NOPTR being the NULL of memmem.           *)
(***************************************************************************)
EXTENDS Integers, Sequences, FiniteSets, TLC

VARIABLES
    data,       \* the input buffer (const gnutls_datum_t *data)
    format,     \* GNUTLS_X509_FMT_DER or GNUTLS_X509_FMT_PEM
    flags,      \* the flags the caller passed to the entry point
    entry,      \* the entry point the caller invoked
    cap,        \* the capacity the caller passes to gnutls_x509_crl_list_import
    pc,         \* control location
    calls,      \* number of invocations of gnutls_x509_crl_list_import so far
    reallocs,   \* number of gnutls_realloc_fast calls of list_import2
    cflags,     \* list_import: the flags parameter of the current invocation
    cap0,       \* list_import: *crl_max at entry of the current invocation
    crl_max,    \* list_import: *crl_max (list_import2: its local init)
    ptr,        \* list_import: ptr
    count,      \* list_import: count
    nocopy,     \* list_import: nocopy
    ret,        \* list_import: the value returned (ret at the error label)
    crls,       \* the handle array: written slots only, index -> pointer
    arrSize,    \* number of slots of the handle array
    arrState,   \* "none", "caller" (caller's array), "heap", "freed"
    heap,       \* every gnutls_x509_crl_int ever allocated, by handle
    heap0,      \* number of structures allocated before the current invocation
    ret1,       \* what the first invocation of list_import returned
    max1,       \* *crl_max as the first invocation of list_import left it
    garbageDeinit, \* deinit was applied to a never-written slot
    oob,        \* a slot beyond the array was written
    size_out,   \* list_import2: *size (UNSET until written)
    crls_out,   \* list_import2: *crls is "unset", "array" or "null"
    ret2,       \* list_import2: the value returned
    handle,     \* accessors: the handle the caller passes (NULL or a handle)
    tree,       \* accessors: crl->crl, the decoded CertificateList
    op,         \* accessors: the operation the caller invoked last
    arg,        \* accessors: what the caller passed to it
    out,        \* accessors: what it returned and left in the outputs
    threads,    \* concurrent callers: what each thread is doing
    trees       \* concurrent callers: the structure behind each handle

vars == <<data, format, flags, entry, cap, pc, calls, reallocs, cflags, cap0,
          crl_max, ptr, count, nocopy, ret, crls, arrSize, arrState, heap,
          heap0, ret1, max1, garbageDeinit, oob, size_out, crls_out, ret2,
          handle, tree, op, arg, out, threads, trees>>

accVars == <<handle, tree, op, arg, out, threads, trees>>

inputs == <<data, format, flags, entry, cap>>

-----------------------------------------------------------------------------
(* Bounds of the model *)

\* small buffers are concatenations of at most MaxChunks chunks
MaxChunks == 3
\* capacities 0..MaxCap are passed to the fixed-capacity importer
MaxCap == 3
\* the first FailWindow passes of the PEM loop are taken one at a time, and
\* gnutls_x509_crl_init may fail in them; the later passes are taken together
FailWindow == 3

-----------------------------------------------------------------------------
(* Program constants *)

NULL == 0
GARBAGE == -1
NOPTR == -1
UNSET == -1
ASN1_SUCCESS == 0
ASN1_ELEMENT_NOT_FOUND == 2
ASN1_DER_ERROR == 4
ASN1_VALUE_NOT_FOUND == 5
ASN1_MEM_ERROR == 12

GNUTLS_E_MEMORY_ERROR == -25
GNUTLS_E_BASE64_DECODING_ERROR == -34
GNUTLS_E_INVALID_REQUEST == -50
GNUTLS_E_SHORT_MEMORY_BUFFER == -51
GNUTLS_E_ASN1_ELEMENT_NOT_FOUND == -67
GNUTLS_E_ASN1_DER_ERROR == -69
GNUTLS_E_CERTIFICATE_ERROR == -43
GNUTLS_E_REQUESTED_DATA_NOT_AVAILABLE == -56
GNUTLS_E_ASN1_VALUE_NOT_FOUND == -70
GNUTLS_E_X509_UNSUPPORTED_EXTENSION == -327

\* unsigned int init = 1024 in gnutls_x509_crl_list_import2
INIT_CAPACITY == 1024

GNUTLS_X509_FMT_DER == "DER"
GNUTLS_X509_FMT_PEM == "PEM"
GNUTLS_X509_CRT_LIST_IMPORT_FAIL_IF_EXCEED == "FAIL_IF_EXCEED"

PEM_CRL_SEP == <<"-", "B">>
SepLen == Len(PEM_CRL_SEP)

-----------------------------------------------------------------------------
(* Input buffers *)

ValidBlock == <<"-", "B", "v">>
BadDerBlock == <<"-", "B", "d">>
Chunks == { ValidBlock, BadDerBlock, <<"-", "B">>, <<"v">>, <<"-">> }

RECURSIVE Bufs(_)
Bufs(n) ==
    IF n = 0 THEN { <<>> }
    ELSE LET S == Bufs(n - 1) IN S \cup { b \o c : b \in S, c \in Chunks }

SmallBufs == Bufs(MaxChunks)

RepValid(n) ==
    [i \in 1..(3 * n) |-> IF i % 3 = 1 THEN "-" ELSE IF i % 3 = 2 THEN "B" ELSE "v"]

\* buffers with INIT_CAPACITY valid blocks and then zero, one or two more blocks
BigTails == { <<>>, ValidBlock, BadDerBlock, ValidBlock \o ValidBlock }
BigBufs == { RepValid(INIT_CAPACITY) \o t : t \in BigTails }

-----------------------------------------------------------------------------
(* Collaborators and helpers *)

\* memmem (buf + from, Len(buf) - from, PEM_CRL_SEP, SepLen): offset or NOPTR
RECURSIVE memmem(_, _)
memmem(buf, from) ==
    IF from + SepLen > Len(buf) THEN NOPTR
    ELSE IF SubSeq(buf, from + 1, from + SepLen) = PEM_CRL_SEP THEN from
    ELSE memmem(buf, from + 1)

\* number of boundary markers of a buffer, counted without scanning
Markers(buf) ==
    { i \in 0..(Len(buf) - SepLen) : SubSeq(buf, i + 1, i + SepLen) = PEM_CRL_SEP }
NumMarkers(buf) == Cardinality(Markers(buf))

\* the PEM codec: decode (PEM_CRL, bytes) -> owned DER bytes, or an error
_gnutls_fbase64_decode(bytes) ==
    LET k == memmem(bytes, 0)
        b == k + SepLen + 1
    IN IF k = NOPTR \/ b > Len(bytes) \/ bytes[b] \notin {"v", "d"}
       THEN [result |-> GNUTLS_E_BASE64_DECODING_ERROR, der |-> <<>>, hdr |-> 0]
       ELSE [result |-> 0, der |-> <<bytes[b]>>, hdr |-> k]

\* the Structure Adapter's DER decoder: ASN1_SUCCESS or an ASN.1 error
asn1_der_decoding(der) ==
    IF Len(der) >= 1 /\ der[1] = "v" THEN ASN1_SUCCESS ELSE ASN1_DER_ERROR

\* the library's map from ASN.1 results to its own negative error codes
_gnutls_asn2err(result) ==
    IF result = ASN1_SUCCESS THEN 0
    ELSE IF result = ASN1_ELEMENT_NOT_FOUND THEN GNUTLS_E_ASN1_ELEMENT_NOT_FOUND
    ELSE IF result = ASN1_VALUE_NOT_FOUND THEN GNUTLS_E_ASN1_VALUE_NOT_FOUND
    ELSE IF result = ASN1_MEM_ERROR THEN GNUTLS_E_SHORT_MEMORY_BUFFER
    ELSE GNUTLS_E_ASN1_DER_ERROR

EmptyTree == [der |-> <<>>, off |-> -1]

Slot(arr, i) == IF i \in DOMAIN arr THEN arr[i] ELSE GARBAGE

IsHandle(hp, p) == p \in 1..Len(hp)

-----------------------------------------------------------------------------
(* CRL Handle Lifecycle *)

\* what gnutls_calloc and asn1_create_element do in one gnutls_x509_crl_init
InitOutcomes == { "ok", "calloc_fails", "create_element_fails" }

\* gnutls_x509_crl_init (&slot): the value returned, the pointer left in the
\* slot and the heap.  When asn1_create_element fails the structure is freed
\* and the slot keeps pointing to it.
gnutls_x509_crl_init(hp, o) ==
    LET h == Len(hp) + 1
        fresh == [live |-> TRUE, tree |-> EmptyTree, deinits |-> 0,
                  initFreed |-> FALSE]
    IN CASE o = "calloc_fails" ->
              [ret |-> GNUTLS_E_MEMORY_ERROR, p |-> NULL, heap |-> hp]
         [] o = "create_element_fails" ->
              [ret |-> _gnutls_asn2err(ASN1_ELEMENT_NOT_FOUND), p |-> h,
               heap |-> Append(hp, [fresh EXCEPT !.live = FALSE,
                                                 !.initFreed = TRUE])]
         [] OTHER ->
              [ret |-> 0, p |-> h, heap |-> Append(hp, fresh)]

\* need_free: set once the PEM codec has produced its own DER buffer
NeedFree_Always(fmt) == 1
NeedFree(fmt) == IF fmt = GNUTLS_X509_FMT_PEM THEN 1 ELSE 0

\* gnutls_x509_crl_import (crl, bytes, fmt); base is the offset of bytes in
\* the caller's buffer, kept with the tree to tell the blocks apart.
\* _data is the caller's input until the PEM codec replaces it by a
\* temporary; tmp_frees and input_frees count what "if (need_free)
\* _gnutls_free_datum (&_data)" releases
gnutls_x509_crl_import(hp, crl, bytes, fmt, base) ==
    IF crl = NULL
    THEN [ret |-> GNUTLS_E_INVALID_REQUEST, heap |-> hp, adapter |-> 0,
          tmp_frees |-> 0, input_frees |-> 0]
    ELSE
    LET pem == IF fmt = GNUTLS_X509_FMT_PEM
               THEN _gnutls_fbase64_decode(bytes)
               ELSE [result |-> 0, der |-> bytes, hdr |-> 0]
        owned == fmt = GNUTLS_X509_FMT_PEM /\ pem.result >= 0
        need_free == NeedFree(fmt)
        tmp_frees == IF owned THEN need_free ELSE 0
        input_frees == IF owned THEN 0 ELSE need_free
    IN IF pem.result < 0
       THEN [ret |-> pem.result, heap |-> hp, adapter |-> 0,
             tmp_frees |-> 0, input_frees |-> 0]
       ELSE LET result == asn1_der_decoding(pem.der)
            IN IF result # ASN1_SUCCESS
               THEN [ret |-> _gnutls_asn2err(result), heap |-> hp,
                     adapter |-> 1, tmp_frees |-> tmp_frees,
                     input_frees |-> input_frees]
               ELSE [ret |-> 0,
                     heap |-> [hp EXCEPT ![crl].tree =
                                 [der |-> SubSeq(pem.der, 1, 1),
                                  off |-> base + pem.hdr]],
                     adapter |-> 1, tmp_frees |-> tmp_frees,
                     input_frees |-> input_frees]

\* the loop "for (j = 0; j < n; j++) gnutls_x509_crl_deinit (arr[j])": each
\* call frees the structure its argument points to, NULL being a no-op
DeinitTargets(arr, n) == { Slot(arr, j) : j \in 0..(n - 1) }

DeinitAll_Skip(hp, arr, n) == hp
DeinitAll(hp, arr, n) ==
    LET T == DeinitTargets(arr, n)
    IN [h \in DOMAIN hp |->
          IF h \notin T THEN hp[h]
          ELSE [hp[h] EXCEPT
                  !.live = FALSE,
                  !.deinits = @ + Cardinality({ j \in 0..(n - 1) : Slot(arr, j) = h })]]

\* deinit applied to freed memory: the handles among the targets not live
DanglingTargets(hp, arr, n) ==
    { h \in DeinitTargets(arr, n) : IsHandle(hp, h) /\ ~hp[h].live }

Live(hp) == { h \in DOMAIN hp : hp[h].live }

-----------------------------------------------------------------------------
(* Initial states: the caller's arguments *)

Formats == { GNUTLS_X509_FMT_DER, GNUTLS_X509_FMT_PEM }
FlagSets == { {}, { GNUTLS_X509_CRT_LIST_IMPORT_FAIL_IF_EXCEED } }

Init ==
    /\ \/ /\ data \in SmallBufs
          /\ format \in Formats
          /\ \/ entry = "list_import" /\ cap \in 0..MaxCap
             \/ entry = "list_import2" /\ cap = INIT_CAPACITY
       \/ /\ data \in BigBufs
          /\ format = GNUTLS_X509_FMT_PEM
          /\ entry = "list_import2" /\ cap = INIT_CAPACITY
    /\ flags \in FlagSets
    /\ pc = "start"
    /\ calls = 0 /\ reallocs = 0
    /\ cflags = {} /\ cap0 = 0 /\ crl_max = 0
    /\ ptr = NOPTR /\ count = 0 /\ nocopy = 0 /\ ret = 0
    /\ crls = <<>> /\ arrSize = 0 /\ arrState = "none"
    /\ heap = <<>> /\ heap0 = 0 /\ ret1 = 0 /\ max1 = 0
    /\ garbageDeinit = FALSE /\ oob = FALSE
    /\ size_out = UNSET /\ crls_out = "unset" /\ ret2 = 0
    /\ handle = NULL /\ tree = <<>> /\ op = "none" /\ arg = <<>> /\ out = <<>>
    /\ threads = <<>> /\ trees = <<>>

-----------------------------------------------------------------------------
(* gnutls_x509_crl_list_import *)

\* entering the function: the locals as declared
Enter(max, fl) ==
    /\ calls' = calls + 1
    /\ cflags' = fl
    /\ cap0' = max
    /\ heap0' = Len(heap)
    /\ ret1' = IF calls = 0 THEN ret1 ELSE ret
    /\ max1' = IF calls = 0 THEN max1 ELSE crl_max
    /\ crl_max' = max
    /\ ptr' = NOPTR /\ count' = 0 /\ nocopy' = 0 /\ ret' = 0
    /\ pc' = "li_entry"

\* the caller calls the fixed-capacity importer on an array of cap slots
CallListImport ==
    /\ pc = "start" /\ entry = "list_import"
    /\ Enter(cap, flags)
    /\ crls' = <<>> /\ arrSize' = cap /\ arrState' = "caller"
    /\ UNCHANGED <<accVars, inputs, reallocs, heap, garbageDeinit, oob, size_out,
                   crls_out, ret2>>

\* crls[i] = p
WriteSlot(arr, i, p) == (i :> p) @@ arr

\* format == GNUTLS_X509_FMT_DER: lines 1946-1972
ListImportDer ==
    /\ pc = "li_entry" /\ format = GNUTLS_X509_FMT_DER
    /\ IF crl_max < 1
       THEN /\ crl_max' = 1
            /\ ret' = GNUTLS_E_SHORT_MEMORY_BUFFER
            /\ pc' = "li_ret"
            /\ UNCHANGED <<count, crls, heap, oob>>
       ELSE \E o \in InitOutcomes :
            LET i == gnutls_x509_crl_init(heap, o)
                m == gnutls_x509_crl_import(i.heap, i.p, data, format, 0)
            IN /\ count' = 1
               /\ crls' = WriteSlot(crls, 0, i.p)
               /\ oob' = (oob \/ 0 >= arrSize)
               /\ IF i.ret < 0
                  THEN /\ ret' = i.ret /\ heap' = i.heap
                       /\ pc' = "li_error" /\ UNCHANGED crl_max
                  ELSE IF m.ret < 0
                  THEN /\ ret' = m.ret /\ heap' = m.heap
                       /\ pc' = "li_error" /\ UNCHANGED crl_max
                  ELSE /\ ret' = 1 /\ heap' = m.heap
                       /\ crl_max' = 1 /\ pc' = "li_ret"
    /\ UNCHANGED <<accVars, inputs, calls, reallocs, cflags, cap0, ptr, nocopy,
                   arrSize, arrState, heap0, ret1, max1, garbageDeinit,
                   size_out, crls_out, ret2>>

\* the first memmem of the PEM path: lines 1976-1984
ListImportFind_StoresCount ==
    /\ pc = "li_entry" /\ format = GNUTLS_X509_FMT_PEM
    /\ ptr' = memmem(data, 0)
    /\ IF ptr' = NOPTR
       THEN /\ ret' = GNUTLS_E_BASE64_DECODING_ERROR /\ pc' = "li_ret"
            /\ crl_max' = 0
       ELSE ret' = ret /\ pc' = "li_loop" /\ UNCHANGED crl_max
    /\ count' = 0
    /\ UNCHANGED <<accVars, inputs, calls, reallocs, cflags, cap0, nocopy,
                   crls, arrSize, arrState, heap, heap0, ret1, max1,
                   garbageDeinit, oob, size_out, crls_out, ret2>>
ListImportFind ==
    /\ pc = "li_entry" /\ format = GNUTLS_X509_FMT_PEM
    /\ ptr' = memmem(data, 0)
    /\ IF ptr' = NOPTR
       THEN ret' = GNUTLS_E_BASE64_DECODING_ERROR /\ pc' = "li_ret"
       ELSE ret' = ret /\ pc' = "li_loop"
    /\ count' = 0
    /\ UNCHANGED <<accVars, inputs, calls, reallocs, cflags, cap0, crl_max, nocopy,
                   crls, arrSize, arrState, heap, heap0, ret1, max1,
                   garbageDeinit, oob, size_out, crls_out, ret2>>

\* lines 2019-2029: ptr++ and the search for the next marker
NextPtr_NoAdvance(buf, p) == memmem(buf, p)
NextPtr(buf, p) ==
    LET q == p + 1
        size == Len(buf) - q
    IN IF size > 0 THEN memmem(buf, q) ELSE NOPTR

\* line 1988: the capacity is used up
Exceeded_OffByOne(cnt, max) == cnt > max
Exceeded(cnt, max) == cnt >= max

\* lines 2005-2006: the borrowed view of the buffer from ptr to its end
TmpView_FromStart(buf, p) == [bytes |-> buf, base |-> 0]
TmpView(buf, p) == [bytes |-> SubSeq(buf, p + 1, Len(buf)), base |-> p]

\* the variables the loop works on
Loop ==
    [pc |-> pc, ptr |-> ptr, count |-> count, nocopy |-> nocopy, ret |-> ret,
     crls |-> crls, heap |-> heap, oob |-> oob]

\* one pass through the body of the do-while loop, lines 1986-2033, from the
\* loop state L, on buffer buf with *crl_max = max, flags fl and an array of
\* asz slots, gnutls_x509_crl_init doing o; a loop that has ended stays put
IterStep(L, buf, max, fl, asz, o) ==
    LET exceed == Exceeded(L.count, max)
        strict == GNUTLS_X509_CRT_LIST_IMPORT_FAIL_IF_EXCEED \in fl
        nc == IF exceed /\ strict THEN 1 ELSE L.nocopy
        next == NextPtr(buf, L.ptr)
        i == gnutls_x509_crl_init(L.heap, o)
        tmp == TmpView(buf, L.ptr)
        m == gnutls_x509_crl_import(i.heap, i.p, tmp.bytes,
                                    GNUTLS_X509_FMT_PEM, tmp.base)
        made == [L EXCEPT !.nocopy = nc,
                          !.crls = WriteSlot(L.crls, L.count, i.p),
                          !.oob = (L.oob \/ L.count >= asz)]
    IN IF L.pc # "li_loop" THEN L
       ELSE IF exceed /\ ~strict
       THEN [L EXCEPT !.pc = "li_exit"]            \* break
       ELSE IF nc # 0
       THEN [L EXCEPT !.nocopy = nc, !.ptr = next, !.count = L.count + 1,
                      !.pc = IF next # NOPTR THEN "li_loop" ELSE "li_exit"]
       ELSE IF i.ret < 0
       THEN [made EXCEPT !.ret = i.ret, !.heap = i.heap, !.pc = "li_error"]
       ELSE IF m.ret < 0
       THEN [made EXCEPT !.ret = m.ret, !.heap = m.heap, !.pc = "li_error"]
       ELSE [made EXCEPT !.ret = m.ret, !.heap = m.heap,
                         !.ptr = next, !.count = L.count + 1,
                         !.pc = IF next # NOPTR THEN "li_loop" ELSE "li_exit"]

\* n passes in a row in which gnutls_x509_crl_init succeeds
RECURSIVE IterSteps(_, _, _, _, _, _)
IterSteps(L, buf, max, fl, asz, n) ==
    IF n = 0 \/ L.pc # "li_loop" THEN L
    ELSE IF n = 1 THEN IterStep(L, buf, max, fl, asz, "ok")
    ELSE CHOOSE R \in { IterSteps(M, buf, max, fl, asz, n - (n \div 2)) :
                          M \in { IterSteps(L, buf, max, fl, asz, n \div 2) } } :
           TRUE

StoreLoop(L) ==
    /\ pc' = L.pc /\ ptr' = L.ptr /\ count' = L.count /\ nocopy' = L.nocopy
    /\ ret' = L.ret /\ crls' = L.crls /\ heap' = L.heap /\ oob' = L.oob

\* one of the first FailWindow passes of the loop
ListImportIter ==
    /\ pc = "li_loop" /\ count < FailWindow
    /\ \E o \in InitOutcomes :
         \E R \in { IterStep(Loop, data, crl_max, cflags, arrSize, o) } :
           StoreLoop(R)
    /\ UNCHANGED <<accVars, inputs, calls, reallocs, cflags, cap0, crl_max, arrSize,
                   arrState, heap0, ret1, max1, garbageDeinit, size_out,
                   crls_out, ret2>>

\* the passes after the first FailWindow ones, up to the end of the loop
ListImportRest ==
    /\ pc = "li_loop" /\ count >= FailWindow
    /\ \E R \in { IterSteps(Loop, data, crl_max, cflags, arrSize, Len(data)) } :
         StoreLoop(R)
    /\ UNCHANGED <<accVars, inputs, calls, reallocs, cflags, cap0, crl_max, arrSize,
                   arrState, heap0, ret1, max1, garbageDeinit, size_out,
                   crls_out, ret2>>

\* after the loop: lines 2035-2040
ListImportExit_KeepMax ==
    /\ pc = "li_exit"
    /\ ret' = IF nocopy = 0 THEN count ELSE GNUTLS_E_SHORT_MEMORY_BUFFER
    /\ pc' = "li_ret"
    /\ UNCHANGED <<accVars, inputs, calls, reallocs, cflags, cap0, crl_max, ptr, count,
                   nocopy, crls, arrSize, arrState, heap, heap0, ret1, max1,
                   garbageDeinit, oob, size_out, crls_out, ret2>>
ListImportExit ==
    /\ pc = "li_exit"
    /\ crl_max' = count
    /\ ret' = IF nocopy = 0 THEN count ELSE GNUTLS_E_SHORT_MEMORY_BUFFER
    /\ pc' = "li_ret"
    /\ UNCHANGED <<accVars, inputs, calls, reallocs, cflags, cap0, ptr, count, nocopy,
                   crls, arrSize, arrState, heap, heap0, ret1, max1,
                   garbageDeinit, oob, size_out, crls_out, ret2>>

\* the error label: lines 2042-2045.  Deinit of a structure that was freed
\* already reads and frees released memory: the call may go on or the
\* allocator may abort the program.
ListImportError ==
    /\ pc = "li_error"
    /\ heap' = DeinitAll(heap, crls, count)
    /\ garbageDeinit' = (garbageDeinit \/ GARBAGE \in DeinitTargets(crls, count))
    /\ IF DanglingTargets(heap, crls, count) = {}
          /\ GARBAGE \notin DeinitTargets(crls, count)
       THEN pc' = "li_ret"
       ELSE pc' \in { "li_ret", "crashed" }
    /\ UNCHANGED <<accVars, inputs, calls, reallocs, cflags, cap0, crl_max, ptr, count,
                   nocopy, ret, crls, arrSize, arrState, heap0, ret1, max1,
                   oob, size_out, crls_out, ret2>>

\* a caller told GNUTLS_E_SHORT_MEMORY_BUFFER calls again on the same
\* buffer with a new array of the capacity reported
CallerRetry ==
    /\ pc = "li_ret" /\ entry = "list_import" /\ calls = 1
    /\ ret = GNUTLS_E_SHORT_MEMORY_BUFFER
    /\ Enter(crl_max, flags)
    /\ crls' = <<>> /\ arrSize' = crl_max /\ arrState' = "caller"
    /\ UNCHANGED <<accVars, inputs, reallocs, heap, garbageDeinit, oob, size_out,
                   crls_out, ret2>>

-----------------------------------------------------------------------------
(* gnutls_x509_crl_list_import2 *)

\* lines 1882-1892: the array of init slots and the first, strict call
ListImport2Start ==
    /\ pc = "start" /\ entry = "list_import2"
    /\ \E ok \in BOOLEAN :
         IF ok
         THEN /\ Enter(INIT_CAPACITY, { GNUTLS_X509_CRT_LIST_IMPORT_FAIL_IF_EXCEED })
              /\ crls' = <<>> /\ arrSize' = INIT_CAPACITY /\ arrState' = "heap"
              /\ crls_out' = "array"
              /\ UNCHANGED ret2
         ELSE /\ crls_out' = "null"
              /\ ret2' = GNUTLS_E_MEMORY_ERROR
              /\ pc' = "li2_done"
              /\ UNCHANGED <<calls, cflags, cap0, crl_max, ptr, count, nocopy,
                             ret, crls, arrSize, arrState, heap0, ret1, max1>>
    /\ UNCHANGED <<accVars, inputs, reallocs, heap, garbageDeinit, oob, size_out>>

\* line 1893: the result of the first call that makes list_import2 regrow
NeedsRegrow_AnyError(r) == r < 0
NeedsRegrow(r) == r = GNUTLS_E_SHORT_MEMORY_BUFFER

\* line 1895: the number of slots the array is reallocated to
RegrowSize_Double(max) == 2 * max
RegrowSize(max) == max

\* lines 1893-1903: one regrowth to the capacity reported, and the retry
ListImport2Regrow ==
    /\ pc = "li_ret" /\ entry = "list_import2" /\ calls = 1
    /\ NeedsRegrow(ret)
    /\ reallocs' = reallocs + 1
    /\ \E ok \in BOOLEAN :
         IF ok
         THEN /\ Enter(crl_max, flags)
              /\ crls' = [i \in { k \in DOMAIN crls : k < RegrowSize(crl_max) }
                             |-> crls[i]]
              /\ arrSize' = RegrowSize(crl_max) /\ arrState' = "heap"
              /\ UNCHANGED <<crls_out, ret2>>
         ELSE /\ crls_out' = "null"  \* gnutls_realloc_fast freed the array
              /\ arrState' = "freed"
              /\ ret2' = GNUTLS_E_MEMORY_ERROR
              /\ pc' = "li2_done"
              /\ UNCHANGED <<calls, cflags, cap0, crl_max, ptr, count, nocopy,
                             ret, crls, arrSize, heap0, ret1, max1>>
    /\ UNCHANGED <<accVars, inputs, heap, garbageDeinit, oob, size_out>>

\* lines 1905-1913
ListImport2Finish_KeepsArray ==
    /\ pc = "li_ret" /\ entry = "list_import2"
    /\ ~(calls = 1 /\ NeedsRegrow(ret))
    /\ IF ret < 0
       THEN /\ ret2' = ret
            /\ UNCHANGED <<size_out, arrState, crls_out>>
       ELSE /\ size_out' = crl_max
            /\ ret2' = 0
            /\ UNCHANGED <<arrState, crls_out>>
    /\ pc' = "li2_done"
    /\ UNCHANGED <<accVars, inputs, calls, reallocs, cflags, cap0, crl_max, ptr, count,
                   nocopy, ret, crls, arrSize, heap, heap0, ret1, max1,
                   garbageDeinit, oob>>
ListImport2Finish ==
    /\ pc = "li_ret" /\ entry = "list_import2"
    /\ ~(calls = 1 /\ NeedsRegrow(ret))
    /\ IF ret < 0
       THEN /\ arrState' = "freed" /\ crls_out' = "null"
            /\ ret2' = ret
            /\ UNCHANGED size_out
       ELSE /\ size_out' = crl_max
            /\ ret2' = 0
            /\ UNCHANGED <<arrState, crls_out>>
    /\ pc' = "li2_done"
    /\ UNCHANGED <<accVars, inputs, calls, reallocs, cflags, cap0, crl_max, ptr, count,
                   nocopy, ret, crls, arrSize, heap, heap0, ret1, max1,
                   garbageDeinit, oob>>

-----------------------------------------------------------------------------

Next ==
    \/ CallListImport
    \/ ListImportDer
    \/ ListImportFind
    \/ ListImportIter
    \/ ListImportRest
    \/ ListImportExit
    \/ ListImportError
    \/ CallerRetry
    \/ ListImport2Start
    \/ ListImport2Regrow
    \/ ListImport2Finish

Spec == Init /\ [][Next]_vars

-----------------------------------------------------------------------------
(* Vocabulary of the properties *)

Strict == GNUTLS_X509_CRT_LIST_IMPORT_FAIL_IF_EXCEED \in cflags

\* gnutls_x509_crl_list_import has just returned
Returned == pc = "li_ret"

\* the handles created by the current invocation that are still allocated
CallLive == { h \in Live(heap) : h > heap0 }

\* number of structures the current invocation allocated
CallCreated == Len(heap) - heap0

\* gnutls_x509_crl_init failed in the current invocation
InitFailed == ret \in { GNUTLS_E_MEMORY_ERROR, GNUTLS_E_ASN1_ELEMENT_NOT_FOUND }

\* the PEM scan was left through the error label: the only negative results
\* that are returned with ptr still at a marker come from there
PemFailedMidScan ==
    /\ Returned /\ format = GNUTLS_X509_FMT_PEM
    /\ ret < 0 /\ ret # GNUTLS_E_SHORT_MEMORY_BUFFER /\ ptr # NOPTR

\* the symbol after the marker at offset m is a well-formed body
ValidAt(buf, m) == m + SepLen + 1 <= Len(buf) /\ buf[m + SepLen + 1] = "v"

-----------------------------------------------------------------------------
(* C1: when creating or importing the handle of a PEM block fails during
   the scan, gnutls_x509_crl_list_import returns with no handle of this
   call left allocated, the handle of the failing block included. *)
C1_RollbackOnFailure == PemFailedMidScan => CallLive = {}

(* C2: on every exit path of gnutls_x509_crl_list_import each handle is
   deinitialised at most once, and gnutls_x509_crl_deinit is never applied
   to a slot whose structure a failed gnutls_x509_crl_init had freed or to
   a slot that was never written. *)
C2_NoBadDeinit ==
    /\ ~garbageDeinit
    /\ pc # "crashed"
    /\ \A h \in DOMAIN heap :
         /\ heap[h].deinits <= 1
         /\ heap[h].initFreed => heap[h].deinits = 0

(* C3: when a strict PEM call returns GNUTLS_E_SHORT_MEMORY_BUFFER because
   the buffer holds more blocks than the capacity, every handle it created
   has been torn down. *)
C3_StrictAbortTearsDown ==
    ( /\ Returned /\ format = GNUTLS_X509_FMT_PEM /\ Strict
      /\ NumMarkers(data) > cap0
      /\ ret = GNUTLS_E_SHORT_MEMORY_BUFFER )
    => CallLive = {}

(* C4: a strict PEM call that returns GNUTLS_E_SHORT_MEMORY_BUFFER leaves
   in *crl_max the number of boundary markers of the buffer, and a second
   call on the same buffer with that capacity never runs out of capacity:
   nocopy stays 0 and the result is not GNUTLS_E_SHORT_MEMORY_BUFFER. *)
C4_ReportedCapacitySuffices ==
    /\ ( /\ Returned /\ format = GNUTLS_X509_FMT_PEM /\ Strict
         /\ ret = GNUTLS_E_SHORT_MEMORY_BUFFER )
       => crl_max = NumMarkers(data)
    /\ (calls = 2 /\ format = GNUTLS_X509_FMT_PEM)
       => /\ nocopy = 0
          /\ cap0 = max1
          /\ Returned => ret # GNUTLS_E_SHORT_MEMORY_BUFFER

\* a caller's second call, with the capacity reported, imported every block
C4_Witness ==
    /\ Returned /\ entry = "list_import" /\ calls = 2
    /\ format = GNUTLS_X509_FMT_PEM
    /\ ret1 = GNUTLS_E_SHORT_MEMORY_BUFFER
    /\ ret = NumMarkers(data) /\ ret >= 2

(* C5: after gnutls_x509_crl_list_import2 returns, the handles still
   allocated are exactly the *size handles of *crls when it succeeded, and
   there is none when it failed. *)
C5_Import2AllOrNothing ==
    pc = "li2_done" =>
      IF ret2 = 0
      THEN /\ \A i \in 0..(size_out - 1) : Slot(crls, i) \in Live(heap)
           /\ Live(heap) = { Slot(crls, i) : i \in 0..(size_out - 1) }
           /\ Cardinality(Live(heap)) = size_out
      ELSE Live(heap) = {}

(* C6: gnutls_x509_crl_list_import2 calls the fixed-capacity importer at
   most twice, the second time only after the first call returned
   GNUTLS_E_SHORT_MEMORY_BUFFER and after exactly one reallocation; no
   other error is retried; on success *size is the number of CRL blocks of
   the buffer (one for DER input). *)
C6_SingleCapacityRetry ==
    entry = "list_import2" =>
      /\ calls <= 2 /\ reallocs <= 1
      /\ calls = 2 => (ret1 = GNUTLS_E_SHORT_MEMORY_BUFFER /\ reallocs = 1)
      /\ (calls = 1 /\ reallocs = 1) => ret = GNUTLS_E_SHORT_MEMORY_BUFFER
      /\ (pc = "li2_done" /\ calls = 1 /\ ret # GNUTLS_E_SHORT_MEMORY_BUFFER)
         => reallocs = 0
      /\ (pc = "li2_done" /\ ret2 = 0)
         => size_out = IF format = GNUTLS_X509_FMT_PEM
                       THEN NumMarkers(data) ELSE 1

\* a buffer of one block more than the initial capacity was imported after
\* one regrowth
C6_Witness ==
    /\ pc = "li2_done" /\ ret2 = 0 /\ calls = 2 /\ reallocs = 1
    /\ size_out = INIT_CAPACITY + 1

(* C7, as stated: the retry of gnutls_x509_crl_list_import2 is made with
   the array reallocated to exactly the capacity the first call reported
   and with the strict flag set. *)
C7_RetryIsStrict ==
    (entry = "list_import2" /\ calls = 2)
    => (arrSize = max1 /\ cap0 = max1 /\ Strict)

(* C7, amended: the first call is the strict one; the retry is made with
   the array reallocated to exactly the capacity the first call reported
   and with the flags of the caller. *)
C7_RetryWithCallerFlags ==
    /\ (entry = "list_import2" /\ calls = 1)
       => (Strict /\ cap0 = INIT_CAPACITY /\ arrSize = INIT_CAPACITY)
    /\ (entry = "list_import2" /\ calls = 2)
       => (arrSize = max1 /\ cap0 = max1 /\ cflags = flags /\ reallocs = 1)

\* a retry made without the strict flag that imported every block
C7_Witness ==
    /\ Returned /\ entry = "list_import2" /\ calls = 2
    /\ flags = {} /\ ~Strict
    /\ arrSize = INIT_CAPACITY + 1 /\ ret = INIT_CAPACITY + 1

\* every marker of the buffer starts a well-formed block
AllValid(buf) == \A m \in Markers(buf) : ValidAt(buf, m)

\* the offset of the block the handle in slot i was decoded from
BlockOf(i) == heap[crls[i]].tree.off

\* slots 0..n-1 hold live handles of this call, decoded from the markers in
\* M, one each, in the order of the buffer
HoldsInOrder(n, M) ==
    /\ \A i \in 0..(n - 1) :
         /\ Slot(crls, i) \in CallLive
         /\ heap[crls[i]].tree.der = <<"v">>
         /\ i + 1 <= n - 1 => BlockOf(i) < BlockOf(i + 1)
    /\ { BlockOf(i) : i \in 0..(n - 1) } = M

(* C8: for a PEM buffer of n >= 1 valid blocks and a capacity of at least
   n, gnutls_x509_crl_list_import (when no allocation fails) returns n,
   sets *crl_max to n, and crls[i] is the handle decoded from the i-th
   block of the buffer. *)
C8_ImportsAllInOrder ==
    ( /\ Returned /\ format = GNUTLS_X509_FMT_PEM
      /\ ~InitFailed
      /\ NumMarkers(data) >= 1 /\ cap0 >= NumMarkers(data)
      /\ AllValid(data) )
    => /\ ret = NumMarkers(data)
       /\ crl_max = NumMarkers(data)
       /\ HoldsInOrder(NumMarkers(data), Markers(data))

\* three valid blocks were imported into an array of three slots
C8_Witness ==
    /\ Returned /\ format = GNUTLS_X509_FMT_PEM
    /\ data = ValidBlock \o ValidBlock \o ValidBlock
    /\ cap0 = 3 /\ ret = 3 /\ Cardinality(CallLive) = 3

\* the first c markers of a buffer
FirstMarkers(buf, c) ==
    { m \in Markers(buf) : Cardinality({ k \in Markers(buf) : k < m }) < c }

\* what the importer gives for a buffer of exactly c valid blocks and
\* capacity c: lines 1978-1982 when there is no marker, C8 otherwise
ExactResult(c) ==
    IF c = 0 THEN [ret |-> GNUTLS_E_BASE64_DECODING_ERROR, crl_max |-> 0]
    ELSE [ret |-> c, crl_max |-> c]

\* ExactResult is what the model gives on such buffers
ExactResultIsMet ==
    ( /\ Returned /\ format = GNUTLS_X509_FMT_PEM /\ ~InitFailed
      /\ NumMarkers(data) = cap0 /\ AllValid(data) )
    => (ret = ExactResult(cap0).ret /\ crl_max = ExactResult(cap0).crl_max)

\* a non-strict PEM call on a buffer of more blocks than the capacity, the
\* first cap0 of them valid, in which no allocation failed
Truncating ==
    /\ Returned /\ format = GNUTLS_X509_FMT_PEM /\ ~Strict
    /\ ~InitFailed
    /\ NumMarkers(data) > cap0
    /\ \A m \in FirstMarkers(data, cap0) : ValidAt(data, m)

\* the first cap0 blocks were imported in order and nothing else was made
TruncatedToCapacity ==
    /\ ret = cap0 /\ crl_max = cap0
    /\ CallCreated = cap0
    /\ DOMAIN crls = 0..(cap0 - 1)
    /\ HoldsInOrder(cap0, FirstMarkers(data, cap0))

(* C9, as stated: without the strict flag a buffer of more blocks than the
   capacity c gives c, handles for the first c blocks in order, *crl_max =
   c and no handle for a later block; result and *crl_max are those of a
   buffer of exactly c blocks. *)
C9_TruncationSameAsExact ==
    /\ ExactResultIsMet
    /\ Truncating
       => /\ TruncatedToCapacity
          /\ ret = ExactResult(cap0).ret
          /\ crl_max = ExactResult(cap0).crl_max

(* C9, amended: as stated, but result and *crl_max are those of a buffer
   of exactly c blocks only for c >= 1; for c = 0 the call returns 0. *)
C9_SilentTruncation ==
    /\ ExactResultIsMet
    /\ Truncating
       => /\ TruncatedToCapacity
          /\ cap0 >= 1 => /\ ret = ExactResult(cap0).ret
                          /\ crl_max = ExactResult(cap0).crl_max
          /\ cap0 = 0 => ret = 0

\* three blocks, two slots: two handles and a result of 2
C9_Witness ==
    /\ Truncating /\ cap0 = 2 /\ NumMarkers(data) = 3
    /\ ret = 2 /\ Cardinality(CallLive) = 2

(* C10: for DER input a capacity of 0 gives GNUTLS_E_SHORT_MEMORY_BUFFER,
   *crl_max = 1 and no handle; a capacity of at least 1 creates (when the
   allocation does not fail) exactly one handle, in crls[0], whatever the
   flags and whatever follows the first CRL: the call returns 1 with
   *crl_max = 1 when it decodes, and the decode error with that handle
   destroyed when it does not. *)
C10_DerImportsOne ==
    (Returned /\ format = GNUTLS_X509_FMT_DER) =>
      IF cap0 < 1
      THEN /\ ret = GNUTLS_E_SHORT_MEMORY_BUFFER /\ crl_max = 1
           /\ CallCreated = 0 /\ crls = <<>>
      ELSE ~InitFailed =>
           /\ CallCreated = 1
           /\ DOMAIN crls = {0} /\ crls[0] = heap0 + 1
           /\ IF asn1_der_decoding(data) = ASN1_SUCCESS
              THEN /\ ret = 1 /\ crl_max = 1
                   /\ CallLive = { crls[0] }
                   /\ heap[crls[0]].tree = [der |-> <<"v">>, off |-> 0]
              ELSE /\ ret = GNUTLS_E_ASN1_DER_ERROR
                   /\ CallLive = {}
                   /\ heap[crls[0]].deinits = 1

\* a DER buffer that does not decode: one handle made and destroyed
C10_Witness ==
    /\ Returned /\ format = GNUTLS_X509_FMT_DER /\ cap0 >= 1
    /\ flags # {} /\ Len(data) >= 2
    /\ ret = GNUTLS_E_ASN1_DER_ERROR
    /\ CallCreated = 1 /\ CallLive = {}

-----------------------------------------------------------------------------
(***************************************************************************)
(* The field accessors.  The handle under test owns a decoded              *)
(* CertificateList (tree); the caller calls one accessor after another.    *)
(* A byte is a number, a caller's buffer is a pointer (null or not) with   *)
(* the bytes behind it, every byte of a buffer the caller hands in being   *)
(* 170 (0xAA).  A node of the tree has an ASN.1 type and content bytes; an *)
(* extension value is DER: tag, length, content.                           *)
(***************************************************************************)

\* the longest field value (signature, identifier, serial, number), in bytes
MaxLen == 2
\* the most extensions of a CRL
MaxExts == 2

\* the largest size a caller passes: more than the longest encoded value
MaxSize == 2 * MaxLen + 12

\* a caller's buffer of n bytes, and the null pointer
Buf(n) == [null |-> FALSE, bytes |-> [i \in 1..n |-> 170]]
NullBuf == [null |-> TRUE, bytes |-> <<>>]

\* what callers pass as (pointer, *size): the size of a buffer is its
\* length, which is short, or exact, for the values of MaxLen and fewer
\* bytes, or MaxSize
Sizes == 0..(MaxLen + 1) \cup { MaxSize }
CallerBufs ==
    { [buf |-> Buf(n), size |-> n] : n \in Sizes }
      \cup { [buf |-> NullBuf, size |-> n] : n \in Sizes }

\* the content bytes 1, 2, .., n
Val(n) == [i \in 1..n |-> i]

\* a node of a tree that holds a value, and a path that leads to none
Node(type, val, unused) ==
    [present |-> TRUE, missing |-> ASN1_SUCCESS, type |-> type, val |-> val,
     unused |-> unused]
NoNode(result) ==
    [present |-> FALSE, missing |-> result, type |-> "", val |-> <<>>,
     unused |-> 0]

\* the content bytes of the DER INTEGER v, 0 <= v < 32768
EncodeInt(v) == IF v < 128 THEN <<v>> ELSE <<v \div 256, v % 256>>

\* memcpy (ivalue, val, Len(val))
Copy(bytes, val) == val \o SubSeq(bytes, Len(val) + 1, Len(bytes))

\* the Structure Adapter's read_value (tree, path, ivalue, len): the set
\* of its outcomes.  len is the size of ivalue in bytes and comes back as
\* the length of the value, in bits for a BIT STRING.  A value longer than
\* len is ASN1_MEM_ERROR; a value that fits is copied, and copying to a
\* null ivalue either is skipped or writes through the null pointer.
asn1_read_value(node, ivalue, len) ==
    LET n == Len(node.val)
        vlen == IF node.type = "BIT STRING" THEN 8 * n - node.unused ELSE n
        R(res, l, b, c) ==
            [result |-> res, len |-> l, value |-> b, crashed |-> c]
    IN IF ~node.present THEN { R(node.missing, len, ivalue, FALSE) }
       ELSE IF len < n THEN { R(ASN1_MEM_ERROR, vlen, ivalue, FALSE) }
       ELSE IF n = 0 THEN { R(ASN1_SUCCESS, vlen, ivalue, FALSE) }
       ELSE IF ivalue.null
       THEN { R(ASN1_SUCCESS, vlen, ivalue, c) : c \in BOOLEAN }
       ELSE { R(ASN1_SUCCESS, vlen,
                [ivalue EXCEPT !.bytes = Copy(@, node.val)], FALSE) }

\* the handle: NULL or the one structure that gnutls_x509_crl_init made
VALID == 1

\* what an accessor leaves behind: the value returned, the caller's buffer
\* and size, the number of Structure Adapter calls made, and whether the
\* call wrote through a null pointer
Outcome(r, b, sz, n, c) ==
    [ret |-> r, buf |-> b, size |-> sz, adapter |-> n, crashed |-> c]

\* line 1084: the signature does not end on a byte
PartialByte_Never(bits) == FALSE
PartialByte(bits) == bits % 8 # 0

\* lines 1060-1106
gnutls_x509_crl_get_signature(h, t, sig, sizeof_sig) ==
    IF h = NULL
    THEN { Outcome(GNUTLS_E_INVALID_REQUEST, sig, sizeof_sig, 0, FALSE) }
    ELSE UNION {
      IF r1.result # ASN1_MEM_ERROR
      THEN { Outcome(_gnutls_asn2err(r1.result), sig, sizeof_sig, 1, FALSE) }
      ELSE LET bits == r1.len
               len == bits \div 8
           IN IF PartialByte(bits)
              THEN { Outcome(GNUTLS_E_CERTIFICATE_ERROR, sig, sizeof_sig, 1,
                             FALSE) }
              ELSE IF sizeof_sig < len
              THEN { Outcome(GNUTLS_E_SHORT_MEMORY_BUFFER, sig, bits \div 8,
                             1, FALSE) }
              ELSE { IF r2.result # ASN1_SUCCESS
                     THEN Outcome(_gnutls_asn2err(r2.result), r2.value,
                                  sizeof_sig, 2, r2.crashed)
                     ELSE Outcome(0, r2.value, sizeof_sig, 2, r2.crashed)
                     : r2 \in asn1_read_value(t.signature, sig, len) }
      : r1 \in asn1_read_value(t.signature, NullBuf, 0) }

\* lines 1116-1138: uint8_t version[8]
gnutls_x509_crl_get_version(h, t) ==
    IF h = NULL
    THEN { Outcome(GNUTLS_E_INVALID_REQUEST, NullBuf, 0, 0, FALSE) }
    ELSE { IF r.result # ASN1_SUCCESS
           THEN Outcome(_gnutls_asn2err(r.result), NullBuf, 0, 1, FALSE)
           ELSE Outcome((r.value.bytes[1] % 256) + 1, NullBuf, 0, 1, FALSE)
           : r \in asn1_read_value(t.version, Buf(8), 8) }

-----------------------------------------------------------------------------
(* DER values of extensions, and the CRLs the handle may hold *)

\* the tags of DER elements
TAG ==
    [INTEGER |-> 2,
     SEQUENCE |-> 48,
     KEY_IDENTIFIER |-> 128,
     CERT_ISSUER |-> 161,
     CERT_SERIAL |-> 130,
     DNS_NAME |-> 130,
     BOOLEAN |-> 1,
     BIT_STRING |-> 3,
     OCTET_STRING |-> 4,
     OID |-> 6,
     TIME |-> 23,
     NAME |-> 49,
     EXTENSIONS |-> 160]

OID_AUTHORITY_KEY_ID == <<2, 5, 29, 35>>
OID_CRL_NUMBER == <<2, 5, 29, 20>>

\* tag, length, content
TLV(tag, content) == <<tag, Len(content)>> \o content

\* the DER decoder on a run of elements: tag, length and content of each
RECURSIVE ParseTLVs(_)
ParseTLVs(b) ==
    IF b = <<>> THEN [ok |-> TRUE, items |-> <<>>]
    ELSE IF Len(b) < 2 \/ b[2] > Len(b) - 2
    THEN [ok |-> FALSE, items |-> <<>>]
    ELSE LET rest == ParseTLVs(SubSeq(b, 3 + b[2], Len(b)))
         IN [ok |-> rest.ok,
             items |-> <<[tag |-> b[1], val |-> SubSeq(b, 3, 2 + b[2])]>>
                          \o rest.items]

Extension(oid, crit, value) ==
    [extnID |-> oid, critical |-> crit, extnValue |-> value]

\* values of an Authority Key Identifier extension: keyIdentifier only,
\* issuer names and serial only, both, an empty SEQUENCE, an empty value
\* and a value the decoder rejects
KeyIdField(n) == TLV(TAG.KEY_IDENTIFIER, Val(n))
IssuerField(k) ==
    TLV(TAG.CERT_ISSUER,
        IF k = 1 THEN TLV(TAG.DNS_NAME, Val(1))
        ELSE TLV(TAG.DNS_NAME, Val(1)) \o TLV(TAG.DNS_NAME, Val(2)))
SerialField(n) == TLV(TAG.CERT_SERIAL, Val(n))
AkiValues ==
    { TLV(TAG.SEQUENCE, KeyIdField(n)) : n \in 1..MaxLen }
      \cup { TLV(TAG.SEQUENCE, IssuerField(k) \o SerialField(n)) :
               k \in 1..2, n \in 1..MaxLen }
      \cup { TLV(TAG.SEQUENCE, KeyIdField(1) \o IssuerField(1) \o SerialField(1)),
             TLV(TAG.SEQUENCE, IssuerField(1)),
             TLV(TAG.SEQUENCE, <<>>), <<>>, <<TAG.SEQUENCE, 3, TAG.INTEGER>> }

\* values of a CRL Number extension
NumberValues ==
    { TLV(TAG.INTEGER, Val(n)) : n \in 1..MaxLen }
      \cup { <<>>, <<TAG.INTEGER, 3, 1>> }

\* an extension of no special meaning: number i of them
Plain(i) == Extension(<<1, 2, i>>, i % 2 = 0, Val(1 + (i % MaxLen)))

\* the lists of k and fewer plain extensions, no two with the same extnID
RECURSIVE PlainLists(_)
PlainLists(k) ==
    IF k = 0 THEN { <<>> }
    ELSE PlainLists(k - 1)
           \cup { Append(l, Plain(i)) :
                    l \in { x \in PlainLists(k - 1) : Len(x) = k - 1 },
                    i \in 1..MaxExts }

DistinctIds(l) ==
    \A i, j \in 1..Len(l) : l[i].extnID = l[j].extnID => i = j

\* the extensions of a CRL: plain ones only, or an Authority Key Identifier
\* or a CRL Number alone, before or behind a plain one
ExtLists ==
    { l \in PlainLists(MaxExts) : DistinctIds(l) }
      \cup UNION { { <<e>>, <<Plain(1), e>>, <<e, Plain(1)>> } :
                   e \in { Extension(OID_AUTHORITY_KEY_ID, FALSE, v) :
                             v \in AkiValues }
                         \cup { Extension(OID_CRL_NUMBER, FALSE, v) :
                                  v \in NumberValues } }

Versions == { 0, 1, 2, 127, 128, 256 }

Signatures ==
    { Node("BIT STRING", Val(n), u) : n \in 1..MaxLen, u \in {0, 4} }
      \cup { Node("BIT STRING", <<>>, 0) }

BaseTree ==
    [version |-> Node("INTEGER", EncodeInt(1), 0),
     signature |-> Node("BIT STRING", Val(MaxLen), 0),
     exts |-> <<>>,
     issuer |-> Val(MaxLen),
     algorithm |-> 1,
     thisUpdate |-> 100,
     nextUpdate |-> 200,
     revoked |-> <<[userCertificate |-> Val(1), revocationDate |-> 50]>>]

\* the CRLs: the base one with another version, signature or extensions
Trees ==
    { [BaseTree EXCEPT !.version = Node("INTEGER", EncodeInt(v), 0)] :
        v \in Versions }
      \cup { [BaseTree EXCEPT !.version = NoNode(ASN1_ELEMENT_NOT_FOUND)] }
      \cup { [BaseTree EXCEPT !.signature = s] : s \in Signatures }
      \cup { [BaseTree EXCEPT !.exts = l] :
               l \in ExtLists }

-----------------------------------------------------------------------------
(* The caller of the accessors *)

AccInit ==
    /\ data = <<>> /\ format = GNUTLS_X509_FMT_DER /\ flags = {}
    /\ entry = "accessors" /\ cap = 0
    /\ pc = "acc"
    /\ calls = 0 /\ reallocs = 0
    /\ cflags = {} /\ cap0 = 0 /\ crl_max = 0
    /\ ptr = NOPTR /\ count = 0 /\ nocopy = 0 /\ ret = 0
    /\ crls = <<>> /\ arrSize = 0 /\ arrState = "none"
    /\ heap0 = 0 /\ ret1 = 0 /\ max1 = 0
    /\ garbageDeinit = FALSE /\ oob = FALSE
    /\ size_out = UNSET /\ crls_out = "unset" /\ ret2 = 0
    /\ \/ handle = NULL /\ tree = BaseTree /\ heap = <<>>
       \/ /\ handle = VALID /\ tree \in Trees
          /\ heap = <<[live |-> TRUE, tree |-> [der |-> <<"v">>, off |-> 0],
                       deinits |-> 0, initFreed |-> FALSE]>>
    /\ op = "none" /\ arg = <<>> /\ out = <<>>
    /\ threads = <<>> /\ trees = <<>>

\* the Structure Adapter's operations that change the tree they are given
Mutating ==
    { "asn1_create_element", "asn1_der_decoding", "asn1_delete_structure" }

\* the calls each accessor makes that are given a tree, with the tree each
\* is given: crl->crl, or the nested tree c2 that the accessor created
AdapterCalls_DecodeIntoHandle(name) ==
    { <<"asn1_der_decoding", "crl">> }
AdapterCalls(name) ==
    CASE name = "get_issuer_dn" -> { <<"_gnutls_x509_parse_dn", "crl">> }
      [] name = "get_issuer_dn_by_oid" ->
           { <<"_gnutls_x509_parse_dn_oid", "crl">> }
      [] name = "get_dn_oid" -> { <<"_gnutls_x509_get_dn_oid", "crl">> }
      [] name = "get_issuer_dn2" -> { <<"_gnutls_x509_get_dn", "crl">> }
      [] name = "get_signature_algorithm" ->
           { <<"_gnutls_x509_read_value", "crl">> }
      [] name = "get_signature" -> { <<"asn1_read_value", "crl">> }
      [] name = "get_version" -> { <<"asn1_read_value", "crl">> }
      [] name = "get_this_update" -> { <<"_gnutls_x509_get_time", "crl">> }
      [] name = "get_next_update" -> { <<"_gnutls_x509_get_time", "crl">> }
      [] name = "get_crt_count" -> { <<"asn1_number_of_elements", "crl">> }
      [] name = "get_crt_serial" ->
           { <<"asn1_read_value", "crl">>, <<"_gnutls_x509_get_time", "crl">> }
      [] name = "get_raw_issuer_dn" ->
           { <<"_gnutls_x509_get_signed_data", "crl">>,
             <<"asn1_create_element", "c2">>, <<"asn1_der_decoding", "c2">>,
             <<"asn1_der_decoding_startEnd", "c2">>,
             <<"asn1_delete_structure", "c2">> }
      [] name = "export" -> { <<"_gnutls_x509_export_int", "crl">> }
      [] name = "export2" -> { <<"_gnutls_x509_export_int2", "crl">> }
      [] name \in { "get_authority_key_id", "get_authority_key_gn_serial" } ->
           { <<"_gnutls_x509_crl_get_extension", "crl">>,
             <<"asn1_create_element", "c2">>, <<"asn1_der_decoding", "c2">>,
             <<"_gnutls_parse_general_name", "c2">>,
             <<"asn1_read_value", "c2">>, <<"asn1_delete_structure", "c2">> }
      [] name = "get_number" -> { <<"_gnutls_x509_crl_get_extension", "crl">> }
      [] name = "get_extension_oid" ->
           { <<"_gnutls_x509_crl_get_extension_oid", "crl">> }
      [] name = "get_extension_info" -> { <<"asn1_read_value", "crl">> }
      [] name = "get_extension_data" -> { <<"asn1_read_value", "crl">> }

\* the accessor gives crl->crl to an operation that changes its tree
WritesHandleTree(name) ==
    \E c \in AdapterCalls(name) : c[1] \in Mutating /\ c[2] = "crl"

\* a tree after a decode into it: what it held is replaced
Overwritten(t) ==
    [t EXCEPT !.exts = <<>>, !.signature = NoNode(ASN1_ELEMENT_NOT_FOUND)]

\* the call returns: what the caller passed and what it got back
Return(name, a, o) ==
    /\ op' = name /\ arg' = a /\ out' = o
    /\ pc' = IF o.crashed THEN "crashed" ELSE "acc"
    /\ tree' = IF o.adapter > 0 /\ WritesHandleTree(name)
               THEN Overwritten(tree) ELSE tree
    /\ UNCHANGED <<threads, trees, handle, inputs, calls, reallocs, cflags, cap0,
                   crl_max, ptr, count, nocopy, ret, crls, arrSize, arrState,
                   heap, heap0, ret1, max1, garbageDeinit, oob, size_out,
                   crls_out, ret2>>

\* the caller's first call is any call; after it the caller calls the same
\* accessor again with a buffer of the size reported, or of one byte less
NextBufs(name) ==
    IF op = "none" THEN CallerBufs
    ELSE IF op = name
    THEN { b \in CallerBufs :
             ~b.buf.null /\ b.size \in { out.size, out.size - 1 } }
    ELSE {}

GetSignature ==
    /\ pc = "acc"
    /\ \E b \in NextBufs("get_signature") :
         \E o \in gnutls_x509_crl_get_signature(handle, tree, b.buf, b.size) :
           Return("get_signature", b, o)

GetVersion ==
    /\ pc = "acc" /\ op = "none"
    /\ \E o \in gnutls_x509_crl_get_version(handle, tree) :
         Return("get_version", [buf |-> NullBuf, size |-> 0], o)

-----------------------------------------------------------------------------
(* gnutls_x509_crl_get_number *)

\* an Outcome of an accessor that has the critical output as well
OutcomeC(r, b, sz, n, c, crit) ==
    [ret |-> r, buf |-> b, size |-> sz, adapter |-> n, crashed |-> c,
     critical |-> crit]

\* the Extension Codec's lookup of the extension number indx that has the
\* OID given: its raw value and its critical flag, which is written when
\* the extension is found
_gnutls_x509_crl_get_extension(t, oid, indx, critical) ==
    LET m == SelectSeq(t.exts, LAMBDA e : e.extnID = oid)
    IN IF indx + 1 > Len(m)
       THEN [ret |-> GNUTLS_E_REQUESTED_DATA_NOT_AVAILABLE, data |-> <<>>,
             critical |-> critical]
       ELSE [ret |-> 0, data |-> m[indx + 1].extnValue,
             critical |-> IF m[indx + 1].critical THEN 1 ELSE 0]

\* the Extension Codec's reading of a DER INTEGER into the caller's
\* buffer by size negotiation
_gnutls_x509_ext_extract_number(number, nr_size, extnValue) ==
    LET p == ParseTLVs(extnValue)
    IN IF ~p.ok \/ Len(p.items) # 1
       THEN { [ret |-> _gnutls_asn2err(ASN1_DER_ERROR), buf |-> number,
               size |-> nr_size, crashed |-> FALSE] }
       ELSE IF p.items[1].tag # TAG.INTEGER
       THEN { [ret |-> _gnutls_asn2err(ASN1_DER_ERROR), buf |-> number,
               size |-> nr_size, crashed |-> FALSE] }
       ELSE { [ret |-> _gnutls_asn2err(r.result), buf |-> r.value,
               size |-> r.len, crashed |-> r.crashed] :
              r \in asn1_read_value(Node("INTEGER", p.items[1].val, 0),
                                    number, nr_size) }

\* memset (ret, 0, *ret_size)
Zeroed(b, n) == [b EXCEPT !.bytes = [i \in 1..n |-> 0]]

\* lines 1640-1683
gnutls_x509_crl_get_number(h, t, buf, ret_size, critical) ==
    IF h = NULL
    THEN { OutcomeC(GNUTLS_E_INVALID_REQUEST, buf, ret_size, 0, FALSE,
                    critical) }
    ELSE LET b0 == IF ~buf.null THEN Zeroed(buf, ret_size) ELSE buf
             s0 == IF ~buf.null THEN ret_size ELSE 0
             e == _gnutls_x509_crl_get_extension(t, OID_CRL_NUMBER, 0,
                                                 critical)
         IN IF e.ret < 0
            THEN { OutcomeC(e.ret, b0, s0, 1, FALSE, e.critical) }
            ELSE IF Len(e.data) = 0
            THEN { OutcomeC(GNUTLS_E_REQUESTED_DATA_NOT_AVAILABLE, b0, s0, 1,
                            FALSE, e.critical) }
            ELSE { OutcomeC(IF x.ret < 0 THEN x.ret ELSE 0, x.buf, x.size, 2,
                            x.crashed, e.critical) :
                   x \in _gnutls_x509_ext_extract_number(b0, s0, e.data) }

GetNumber ==
    /\ pc = "acc"
    /\ \E b \in NextBufs("get_number") :
         \E o \in gnutls_x509_crl_get_number(handle, tree, b.buf, b.size,
                                             UNSET) :
           Return("get_number", b, o)

-----------------------------------------------------------------------------
(* gnutls_x509_crl_get_extension_info, gnutls_x509_crl_get_extension_data *)

\* the strings the Structure Adapter gives for a BOOLEAN: "TRUE", "FALSE"
BoolString(b) == IF b THEN <<84, 82, 85, 69>> ELSE <<70, 65, 76, 83, 69>>

\* the nodes at tbsCertList.crlExtensions.?n.extnID, .critical, .extnValue:
\* an OBJECT IDENTIFIER is read as its text and a terminating 0
ExtNode(t, n, field) ==
    IF n \notin 1..Len(t.exts) THEN NoNode(ASN1_ELEMENT_NOT_FOUND)
    ELSE IF field = "extnID"
    THEN Node("OBJECT IDENTIFIER", t.exts[n].extnID \o <<0>>, 0)
    ELSE IF field = "critical"
    THEN Node("BOOLEAN", BoolString(t.exts[n].critical), 0)
    ELSE Node("OCTET STRING", t.exts[n].extnValue, 0)

\* the index in "tbsCertList.crlExtensions.?%u": lines 1766-1767, 1839-1840
ExtIndex_ZeroBased(indx) == indx
ExtIndex(indx) == indx + 1

\* lines 1750-1801: char str_critical[10]
gnutls_x509_crl_get_extension_info(h, t, indx, oid, sizeof_oid, critical) ==
    IF h = NULL
    THEN { OutcomeC(GNUTLS_E_INVALID_REQUEST, oid, sizeof_oid, 0, FALSE,
                    critical) }
    ELSE UNION {
      IF r1.result = ASN1_ELEMENT_NOT_FOUND
      THEN { OutcomeC(GNUTLS_E_REQUESTED_DATA_NOT_AVAILABLE, r1.value, r1.len,
                      1, FALSE, critical) }
      ELSE IF r1.result # ASN1_SUCCESS
      THEN { OutcomeC(_gnutls_asn2err(r1.result), r1.value, r1.len, 1, FALSE,
                      critical) }
      ELSE IF r1.crashed
      THEN { OutcomeC(0, r1.value, r1.len, 1, TRUE, critical) }
      ELSE { IF r2.result # ASN1_SUCCESS
             THEN OutcomeC(_gnutls_asn2err(r2.result), r1.value, r1.len, 2,
                           FALSE, critical)
             ELSE OutcomeC(0, r1.value, r1.len, 2, FALSE,
                           IF r2.value.bytes[1] = 84 THEN 1 ELSE 0)
             : r2 \in asn1_read_value(ExtNode(t, ExtIndex(indx), "critical"),
                                      Buf(10), 10) }
      : r1 \in asn1_read_value(ExtNode(t, ExtIndex(indx), "extnID"), oid,
                               sizeof_oid) }

\* lines 1826-1855: an ASN.1 result is never negative
gnutls_x509_crl_get_extension_data(h, t, indx, buf, sizeof_data) ==
    IF h = NULL
    THEN { Outcome(GNUTLS_E_INVALID_REQUEST, buf, sizeof_data, 0, FALSE) }
    ELSE { IF r.result = ASN1_ELEMENT_NOT_FOUND
           THEN Outcome(GNUTLS_E_REQUESTED_DATA_NOT_AVAILABLE, r.value, r.len,
                        1, FALSE)
           ELSE IF r.result < 0
           THEN Outcome(_gnutls_asn2err(r.result), r.value, r.len, 1, FALSE)
           ELSE Outcome(0, r.value, r.len, 1, r.crashed)
           : r \in asn1_read_value(ExtNode(t, ExtIndex(indx), "extnValue"),
                                   buf, sizeof_data) }

\* the caller's first call is for any index with any buffer; after a call
\* that returned 0 the caller asks for the next index with a like buffer
NextIndexed(name) ==
    IF op = "none"
    THEN { [indx |-> i, from |-> i, buf |-> b.buf, size |-> b.size] :
             i \in 0..MaxExts, b \in CallerBufs }
    ELSE IF op = name /\ out.ret = 0
    THEN { [arg EXCEPT !.indx = @ + 1] }
    ELSE {}

GetExtensionInfo ==
    /\ pc = "acc"
    /\ \E a \in NextIndexed("get_extension_info") :
         \E o \in gnutls_x509_crl_get_extension_info(handle, tree, a.indx,
                                                     a.buf, a.size, UNSET) :
           Return("get_extension_info", a, o)

GetExtensionData ==
    /\ pc = "acc"
    /\ \E a \in NextIndexed("get_extension_data") :
         \E o \in gnutls_x509_crl_get_extension_data(handle, tree, a.indx,
                                                     a.buf, a.size) :
           Return("get_extension_data", a, o)

-----------------------------------------------------------------------------
(* The Authority Key Identifier accessors *)

\* GNUTLS_SAN_DNSNAME, the type _gnutls_parse_general_name returns
GNUTLS_SAN_DNSNAME == 1

\* the place of a field in the AuthorityKeyIdentifier SEQUENCE
Rank(tag) ==
    CASE tag = TAG.KEY_IDENTIFIER -> 1
      [] tag = TAG.CERT_ISSUER -> 2
      [] tag = TAG.CERT_SERIAL -> 3
      [] OTHER -> 0

\* the field of a SEQUENCE that has the tag given
FieldOf(items, tag, type) ==
    IF \E i \in 1..Len(items) : items[i].tag = tag
    THEN Node(type, items[CHOOSE i \in 1..Len(items) : items[i].tag = tag].val, 0)
    ELSE NoNode(ASN1_ELEMENT_NOT_FOUND)

\* no nested tree
ASN1_TYPE_EMPTY ==
    [keyIdentifier |-> NoNode(ASN1_ELEMENT_NOT_FOUND), names |-> <<>>,
     authorityCertSerialNumber |-> NoNode(ASN1_ELEMENT_NOT_FOUND)]

\* the Structure Adapter's DER decoder on a PKIX1.AuthorityKeyIdentifier:
\* a SEQUENCE of keyIdentifier, authorityCertIssuer (GeneralNames) and
\* authorityCertSerialNumber, each optional, in this order
DecodeAuthorityKeyIdentifier(der) ==
    LET p == ParseTLVs(der)
        seqOk == p.ok /\ Len(p.items) = 1
        q == IF seqOk /\ p.items[1].tag = TAG.SEQUENCE
             THEN ParseTLVs(p.items[1].val)
             ELSE [ok |-> FALSE, items |-> <<>>]
        ordered == \A i \in 1..Len(q.items) :
                     /\ Rank(q.items[i].tag) > 0
                     /\ \A j \in (i + 1)..Len(q.items) :
                          Rank(q.items[i].tag) < Rank(q.items[j].tag)
        gn == FieldOf(q.items, TAG.CERT_ISSUER, "SEQUENCE")
        n == ParseTLVs(gn.val)
        namesOk == n.ok /\ \A i \in 1..Len(n.items) : n.items[i].tag = TAG.DNS_NAME
    IN IF q.ok /\ ordered /\ namesOk
       THEN [result |-> ASN1_SUCCESS,
             tree |-> [keyIdentifier |->
                         FieldOf(q.items, TAG.KEY_IDENTIFIER, "OCTET STRING"),
                       names |-> [i \in 1..Len(n.items) |-> n.items[i].val],
                       authorityCertSerialNumber |->
                         FieldOf(q.items, TAG.CERT_SERIAL, "INTEGER")]]
       ELSE [result |-> ASN1_DER_ERROR, tree |-> ASN1_TYPE_EMPTY]

\* asn1_create_element succeeds or fails
CreateOutcomes == { "ok", "create_element_fails" }

\* line 1472: id.size == 0 || id.data == NULL
EmptyValue_Never(value) == FALSE
EmptyValue(value) == Len(value) = 0

\* the datum id that the lookup hands over for a value of size 0: a null
\* pointer, or an owned buffer of no bytes
AkiOutcomes == CreateOutcomes \cup { "empty_value_null" }

\* lines 1478-1488: _gnutls_free_datum (&id) once the value was decoded or
\* the nested tree could not be created
DatumFrees(decoded) == 1

\* lines 1450-1498: the nested tree c2, how many nested trees the call
\* created and deleted, and whether the raw value id was obtained as an
\* owned buffer and how often it was released
_get_authority_key_id(h, t, critical, o) ==
    LET R(r, c2, crit, mk, rm, n, got, fr) ==
          [ret |-> r, c2 |-> c2, critical |-> crit, created |-> mk,
           deleted |-> rm, adapter |-> n, id_obtained |-> got,
           id_freed |-> fr]
        e == _gnutls_x509_crl_get_extension(t, OID_AUTHORITY_KEY_ID, 0,
                                            critical)
        d == DecodeAuthorityKeyIdentifier(e.data)
    IN IF h = NULL
       THEN R(GNUTLS_E_INVALID_REQUEST, ASN1_TYPE_EMPTY, critical, 0, 0, 0,
              0, 0)
       ELSE IF e.ret < 0
       THEN R(e.ret, ASN1_TYPE_EMPTY, e.critical, 0, 0, 1, 0, 0)
       ELSE IF EmptyValue(e.data)
       THEN R(GNUTLS_E_REQUESTED_DATA_NOT_AVAILABLE, ASN1_TYPE_EMPTY,
              e.critical, 0, 0, 1,
              IF o = "empty_value_null" THEN 0 ELSE 1, 0)
       ELSE IF o = "create_element_fails"
       THEN R(_gnutls_asn2err(ASN1_ELEMENT_NOT_FOUND), ASN1_TYPE_EMPTY,
              e.critical, 0, 0, 2, 1, DatumFrees(FALSE))
       ELSE IF d.result # ASN1_SUCCESS
       THEN R(_gnutls_asn2err(d.result), ASN1_TYPE_EMPTY, e.critical, 1, 1, 3,
              1, DatumFrees(TRUE))
       ELSE R(0, d.tree, e.critical, 1, 0, 3, 1, DatumFrees(TRUE))

\* the outcomes S of an accessor, with what became of the raw value
WithDatum(k, S) ==
    { [id_obtained |-> k.id_obtained, id_freed |-> k.id_freed] @@ x :
        x \in S }

\* the General Name Parser on authorityCertIssuer.?seq+1: the name goes to
\* the caller's buffer by size negotiation, its type is returned
_gnutls_parse_general_name(c2, seq, alt, alt_size, alt_type) ==
    LET R(r, b, sz, ty, c) ==
          [ret |-> r, buf |-> b, size |-> sz, type |-> ty, crashed |-> c]
    IN IF seq + 1 > Len(c2.names)
       THEN { R(GNUTLS_E_REQUESTED_DATA_NOT_AVAILABLE, alt, alt_size,
                alt_type, FALSE) }
       ELSE { IF r.result # ASN1_SUCCESS
              THEN R(_gnutls_asn2err(r.result), r.value, r.len, alt_type,
                     FALSE)
              ELSE R(GNUTLS_SAN_DNSNAME, r.value, r.len, GNUTLS_SAN_DNSNAME,
                     r.crashed)
              : r \in asn1_read_value(Node("IA5String", c2.names[seq + 1], 0),
                                      alt, alt_size) }

\* what the Authority Key Identifier accessors leave behind: Outcome, and
\* the critical flag, the type of the name, the serial buffer and its size,
\* and the nested trees created and deleted
OutcomeA(r, b, sz, n, c, crit, ty, sb, ssz, mk, rm) ==
    [ret |-> r, buf |-> b, size |-> sz, adapter |-> n, crashed |-> c,
     critical |-> crit, alt_type |-> ty, serial |-> sb, serial_size |-> ssz,
     created |-> mk, deleted |-> rm]

\* line 1556: the test of the result of reading the serial number
SerialReadFailed(result) == result < 0

\* lines 1523-1570
gnutls_x509_crl_get_authority_key_gn_serial(h, t, seq, alt, alt_size, serial, serial_size, o) ==
    LET k == _get_authority_key_id(h, t, UNSET, o)
    IN WithDatum(k,
       IF k.ret < 0
       THEN { OutcomeA(k.ret, alt, alt_size, k.adapter, FALSE, k.critical,
                       UNSET, serial, serial_size, k.created, k.deleted) }
       ELSE UNION {
         IF g.ret < 0 \/ g.crashed
         THEN { OutcomeA(g.ret, g.buf, g.size, k.adapter + 1, g.crashed,
                         k.critical, g.type, serial, serial_size, k.created,
                         k.deleted + 1) }
         ELSE IF serial.null
         THEN { OutcomeA(0, g.buf, g.size, k.adapter + 1, FALSE, k.critical,
                         g.type, serial, serial_size, k.created,
                         k.deleted + 1) }
         ELSE { OutcomeA(IF SerialReadFailed(r.result)
                         THEN _gnutls_asn2err(r.result) ELSE 0,
                         g.buf, g.size, k.adapter + 2, r.crashed, k.critical,
                         g.type, r.value, r.len, k.created, k.deleted + 1)
                : r \in asn1_read_value(k.c2.authorityCertSerialNumber,
                                        serial, serial_size) }
         : g \in _gnutls_parse_general_name(k.c2, seq, alt, alt_size, UNSET) })

\* line 1612: the results that mean the extension has no keyIdentifier
KeyIdMissing_ValueOnly(result) == result = ASN1_VALUE_NOT_FOUND
KeyIdMissing(result) ==
    result = ASN1_VALUE_NOT_FOUND \/ result = ASN1_ELEMENT_NOT_FOUND

\* lines 1594-1622
gnutls_x509_crl_get_authority_key_id(h, t, id, id_size, o) ==
    LET k == _get_authority_key_id(h, t, UNSET, o)
    IN WithDatum(k,
       IF k.ret < 0
       THEN { OutcomeA(k.ret, id, id_size, k.adapter, FALSE, k.critical,
                       UNSET, NullBuf, 0, k.created, k.deleted) }
       ELSE { OutcomeA(IF KeyIdMissing(r.result)
                       THEN GNUTLS_E_X509_UNSUPPORTED_EXTENSION
                       ELSE IF r.result # ASN1_SUCCESS
                       THEN _gnutls_asn2err(r.result)
                       ELSE 0,
                       r.value, r.len, k.adapter + 1, r.crashed, k.critical,
                       UNSET, NullBuf, 0, k.created,
                       IF r.crashed THEN k.deleted ELSE k.deleted + 1)
              : r \in asn1_read_value(k.c2.keyIdentifier, id, id_size) })

\* the sequence numbers a caller asks for
Seqs == 0..2

GetAuthorityKeyGnSerial ==
    /\ pc = "acc" /\ op = "none"
    /\ \E seq \in Seqs, a \in CallerBufs, s \in CallerBufs,
          o \in AkiOutcomes :
         \E r \in gnutls_x509_crl_get_authority_key_gn_serial(
                    handle, tree, seq, a.buf, a.size, s.buf, s.size, o) :
           Return("get_authority_key_gn_serial",
                  [seq |-> seq, buf |-> a.buf, size |-> a.size,
                   serial |-> s.buf, serial_size |-> s.size, create |-> o], r)

GetAuthorityKeyId ==
    /\ pc = "acc" /\ op = "none"
    /\ \E b \in CallerBufs, o \in AkiOutcomes :
         \E r \in gnutls_x509_crl_get_authority_key_id(handle, tree, b.buf,
                                                       b.size, o) :
           Return("get_authority_key_id",
                  [buf |-> b.buf, size |-> b.size, create |-> o], r)

-----------------------------------------------------------------------------
(* The other public operations on a handle *)

\* the Output Codec's copy of a value into the caller's buffer by size
\* negotiation
_gnutls_strdatum_to_buf(val, buf, sizeof_buf) ==
    IF buf.null \/ sizeof_buf < Len(val)
    THEN [ret |-> GNUTLS_E_SHORT_MEMORY_BUFFER, buf |-> buf,
          size |-> Len(val)]
    ELSE [ret |-> 0, buf |-> [buf EXCEPT !.bytes = Copy(@, val)],
          size |-> Len(val)]

\* a gnutls_datum_t output: not written, or set to the bytes given
Datum(bytes) == [null |-> FALSE, bytes |-> bytes]

\* the DN Codec on tbsCertList.issuer.rdnSequence, which has one RDN
OID_X520_COMMON_NAME == <<2, 5, 4, 3>>
_gnutls_x509_parse_dn(t, buf, sizeof_buf) ==
    _gnutls_strdatum_to_buf(t.issuer, buf, sizeof_buf)
_gnutls_x509_parse_dn_oid(t, oid, indx) ==
    IF oid = OID_X520_COMMON_NAME /\ indx = 0
    THEN [ret |-> 0, td |-> t.issuer]
    ELSE [ret |-> GNUTLS_E_ASN1_ELEMENT_NOT_FOUND, td |-> <<>>]
_gnutls_x509_get_dn_oid(t, indx, oid, sizeof_oid) ==
    IF indx = 0
    THEN _gnutls_strdatum_to_buf(OID_X520_COMMON_NAME \o <<0>>, oid,
                                 sizeof_oid)
    ELSE [ret |-> GNUTLS_E_ASN1_ELEMENT_NOT_FOUND, buf |-> oid,
          size |-> sizeof_oid]

EncodeExtension(e) ==
    TLV(TAG.SEQUENCE,
        TLV(TAG.OID, e.extnID)
          \o (IF e.critical THEN TLV(TAG.BOOLEAN, <<255>>) ELSE <<>>)
          \o TLV(TAG.OCTET_STRING, e.extnValue))

EncodeRevoked(r) ==
    TLV(TAG.SEQUENCE,
        TLV(TAG.INTEGER, r.userCertificate)
          \o TLV(TAG.TIME, EncodeInt(r.revocationDate)))

\* the elements of a SEQUENCE OF, one after the other
RECURSIVE EncodeExtensions(_)
EncodeExtensions(l) ==
    IF l = <<>> THEN <<>>
    ELSE EncodeExtension(Head(l)) \o EncodeExtensions(Tail(l))
RECURSIVE EncodeRevokedList(_)
EncodeRevokedList(l) ==
    IF l = <<>> THEN <<>>
    ELSE EncodeRevoked(Head(l)) \o EncodeRevokedList(Tail(l))

\* an element that the tree holds, and nothing for one it does not hold
EncodeNode(tag, node, lead) ==
    IF node.present THEN TLV(tag, lead \o node.val) ELSE <<>>

\* the DER encoding of the tree, and the Output Codec's export of it
EncodeCrl(t, fmt) ==
    LET tbs == EncodeNode(TAG.INTEGER, t.version, <<>>)
                 \o TLV(TAG.OID, EncodeInt(t.algorithm))
                 \o TLV(TAG.NAME, t.issuer)
                 \o TLV(TAG.TIME, EncodeInt(t.thisUpdate))
                 \o TLV(TAG.TIME, EncodeInt(t.nextUpdate))
                 \o TLV(TAG.SEQUENCE, EncodeRevokedList(t.revoked))
                 \o (IF t.exts = <<>> THEN <<>>
                     ELSE TLV(TAG.EXTENSIONS,
                              EncodeExtensions(t.exts)))
        der == TLV(TAG.SEQUENCE,
                   TLV(TAG.SEQUENCE, tbs)
                     \o EncodeNode(TAG.BIT_STRING, t.signature,
                                   <<t.signature.unused>>))
    IN IF fmt = GNUTLS_X509_FMT_PEM THEN <<45, 66>> \o der ELSE der
_gnutls_x509_export_int(t, fmt, buf, sizeof_buf) ==
    _gnutls_strdatum_to_buf(EncodeCrl(t, fmt), buf, sizeof_buf)

\* lines 881-894
gnutls_x509_crl_get_issuer_dn(h, t, buf, sizeof_buf) ==
    IF h = NULL
    THEN { Outcome(GNUTLS_E_INVALID_REQUEST, buf, sizeof_buf, 0, FALSE) }
    ELSE LET r == _gnutls_x509_parse_dn(t, buf, sizeof_buf)
         IN { Outcome(r.ret, r.buf, r.size, 1, FALSE) }

\* lines 922-944
gnutls_x509_crl_get_issuer_dn_by_oid(h, t, oid, indx, buf, sizeof_buf) ==
    IF h = NULL
    THEN { Outcome(GNUTLS_E_INVALID_REQUEST, buf, sizeof_buf, 0, FALSE) }
    ELSE LET d == _gnutls_x509_parse_dn_oid(t, oid, indx)
             r == _gnutls_strdatum_to_buf(d.td, buf, sizeof_buf)
         IN IF d.ret < 0 THEN { Outcome(d.ret, buf, sizeof_buf, 1, FALSE) }
            ELSE { Outcome(r.ret, r.buf, r.size, 1, FALSE) }

\* lines 963-976
gnutls_x509_crl_get_dn_oid(h, t, indx, oid, sizeof_oid) ==
    IF h = NULL
    THEN { Outcome(GNUTLS_E_INVALID_REQUEST, oid, sizeof_oid, 0, FALSE) }
    ELSE LET r == _gnutls_x509_get_dn_oid(t, indx, oid, sizeof_oid)
         IN { Outcome(r.ret, r.buf, r.size, 1, FALSE) }

\* lines 993-1004: dn is set by the DN Codec, which may fail to allocate
gnutls_x509_crl_get_issuer_dn2(h, t, dn) ==
    IF h = NULL
    THEN { Outcome(GNUTLS_E_INVALID_REQUEST, dn, 0, 0, FALSE) }
    ELSE { Outcome(0, Datum(t.issuer), Len(t.issuer), 1, FALSE),
           Outcome(GNUTLS_E_MEMORY_ERROR, dn, 0, 1, FALSE) }

\* lines 1016-1048
gnutls_x509_crl_get_signature_algorithm(h, t) ==
    IF h = NULL
    THEN { Outcome(GNUTLS_E_INVALID_REQUEST, NullBuf, 0, 0, FALSE) }
    ELSE { Outcome(t.algorithm, NullBuf, 0, 1, FALSE),
           Outcome(GNUTLS_E_MEMORY_ERROR, NullBuf, 0, 1, FALSE) }

\* lines 1148-1159 and 1169-1180: (time_t) -1 for a null handle
gnutls_x509_crl_get_this_update(h, t) ==
    IF h = NULL THEN { Outcome(-1, NullBuf, 0, 0, FALSE) }
    ELSE { Outcome(t.thisUpdate, NullBuf, 0, 1, FALSE) }
gnutls_x509_crl_get_next_update(h, t) ==
    IF h = NULL THEN { Outcome(-1, NullBuf, 0, 0, FALSE) }
    ELSE { Outcome(t.nextUpdate, NullBuf, 0, 1, FALSE) }

\* lines 1191-1214
gnutls_x509_crl_get_crt_count(h, t) ==
    IF h = NULL
    THEN { Outcome(GNUTLS_E_INVALID_REQUEST, NullBuf, 0, 0, FALSE) }
    ELSE { Outcome(Len(t.revoked), NullBuf, 0, 1, FALSE) }

\* the node at tbsCertList.revokedCertificates.?n.userCertificate
RevokedNode(t, n) ==
    IF n \notin 1..Len(t.revoked) THEN NoNode(ASN1_ELEMENT_NOT_FOUND)
    ELSE Node("INTEGER", t.revoked[n].userCertificate, 0)

\* lines 1230-1269: critical stands for *t, the time of the revocation
gnutls_x509_crl_get_crt_serial(h, t, indx, serial, serial_size, time) ==
    IF h = NULL
    THEN { OutcomeC(GNUTLS_E_INVALID_REQUEST, serial, serial_size, 0, FALSE,
                    time) }
    ELSE { IF r.result # ASN1_SUCCESS
           THEN OutcomeC(IF r.result = ASN1_ELEMENT_NOT_FOUND
                         THEN GNUTLS_E_REQUESTED_DATA_NOT_AVAILABLE
                         ELSE _gnutls_asn2err(r.result),
                         r.value, r.len, 1, FALSE, time)
           ELSE IF r.crashed
           THEN OutcomeC(0, r.value, r.len, 1, TRUE, time)
           ELSE OutcomeC(0, r.value, r.len, 2, FALSE,
                         t.revoked[indx + 1].revocationDate)
           : r \in asn1_read_value(RevokedNode(t, indx + 1), serial,
                                   serial_size) }

\* lines 1283-1349: the nested PKIX1.TBSCertList tree may not be created
gnutls_x509_crl_get_raw_issuer_dn(h, t, dn, o) ==
    IF h = NULL
    THEN { Outcome(GNUTLS_E_INVALID_REQUEST, dn, 0, 0, FALSE) }
    ELSE IF o = "create_element_fails"
    THEN { Outcome(_gnutls_asn2err(ASN1_ELEMENT_NOT_FOUND), dn, 0, 1, FALSE) }
    ELSE { Outcome(0, Datum(t.issuer), Len(t.issuer), 5, FALSE),
           Outcome(GNUTLS_E_MEMORY_ERROR, dn, 0, 3, FALSE) }

\* lines 1370-1383
gnutls_x509_crl_export(h, t, fmt, output_data, output_data_size) ==
    IF h = NULL
    THEN { Outcome(GNUTLS_E_INVALID_REQUEST, output_data, output_data_size,
                   0, FALSE) }
    ELSE LET r == _gnutls_x509_export_int(t, fmt, output_data,
                                          output_data_size)
         IN { Outcome(r.ret, r.buf, r.size, 1, FALSE) }

\* lines 1403-1414: out is allocated by the Output Codec
gnutls_x509_crl_export2(h, t, fmt, dn) ==
    IF h = NULL
    THEN { Outcome(GNUTLS_E_INVALID_REQUEST, dn, 0, 0, FALSE) }
    ELSE { Outcome(0, Datum(EncodeCrl(t, fmt)), Len(EncodeCrl(t, fmt)), 1,
                   FALSE),
           Outcome(GNUTLS_E_MEMORY_ERROR, dn, 0, 1, FALSE) }

\* the Extension Codec's copy of the OID of extension number indx
_gnutls_x509_crl_get_extension_oid(t, indx, oid, sizeof_oid) ==
    IF indx + 1 > Len(t.exts)
    THEN [ret |-> GNUTLS_E_REQUESTED_DATA_NOT_AVAILABLE, buf |-> oid,
          size |-> sizeof_oid]
    ELSE _gnutls_strdatum_to_buf(t.exts[indx + 1].extnID \o <<0>>, oid,
                                 sizeof_oid)

\* lines 1703-1723
gnutls_x509_crl_get_extension_oid(h, t, indx, oid, sizeof_oid) ==
    IF h = NULL
    THEN { Outcome(GNUTLS_E_INVALID_REQUEST, oid, sizeof_oid, 0, FALSE) }
    ELSE LET r == _gnutls_x509_crl_get_extension_oid(t, indx, oid,
                                                     sizeof_oid)
         IN { Outcome(IF r.ret < 0 THEN r.ret ELSE 0, r.buf, r.size, 1,
                      FALSE) }

\* lines 784-794: NULL is left alone, a structure is deleted and freed
gnutls_x509_crl_deinit_NoCheck(hp, p) ==
    [heap |-> DeinitAll(hp, (0 :> p), 1), adapter |-> 1]
gnutls_x509_crl_deinit(hp, p) ==
    IF p = NULL THEN [heap |-> hp, adapter |-> 0]
    ELSE [heap |-> DeinitAll(hp, (0 :> p), 1), adapter |-> 1]

\* the CertificateList that the DER symbol "v" stands for
CrlOf(der) == BaseTree

\* what a caller that passes no buffer passes
NoBuf == [buf |-> NullBuf, size |-> 0]

\* the caller's first call, with any buffer
FirstBufs == IF op = "none" THEN CallerBufs ELSE {}

GetIssuerDn ==
    /\ pc = "acc"
    /\ \E b \in FirstBufs :
         \E o \in gnutls_x509_crl_get_issuer_dn(handle, tree, b.buf, b.size) :
           Return("get_issuer_dn", b, o)

GetIssuerDnByOid ==
    /\ pc = "acc"
    /\ \E b \in FirstBufs, oid \in { OID_X520_COMMON_NAME, <<1, 2, 3>> },
          indx \in 0..1 :
         \E o \in gnutls_x509_crl_get_issuer_dn_by_oid(handle, tree, oid,
                                                       indx, b.buf, b.size) :
           Return("get_issuer_dn_by_oid",
                  [buf |-> b.buf, size |-> b.size, oid |-> oid,
                   indx |-> indx], o)

GetDnOid ==
    /\ pc = "acc"
    /\ \E b \in FirstBufs, indx \in 0..1 :
         \E o \in gnutls_x509_crl_get_dn_oid(handle, tree, indx, b.buf,
                                             b.size) :
           Return("get_dn_oid",
                  [buf |-> b.buf, size |-> b.size, indx |-> indx], o)

GetIssuerDn2 ==
    /\ pc = "acc" /\ op = "none"
    /\ \E o \in gnutls_x509_crl_get_issuer_dn2(handle, tree, NullBuf) :
         Return("get_issuer_dn2", NoBuf, o)

GetSignatureAlgorithm ==
    /\ pc = "acc" /\ op = "none"
    /\ \E o \in gnutls_x509_crl_get_signature_algorithm(handle, tree) :
         Return("get_signature_algorithm", NoBuf, o)

GetThisUpdate ==
    /\ pc = "acc" /\ op = "none"
    /\ \E o \in gnutls_x509_crl_get_this_update(handle, tree) :
         Return("get_this_update", NoBuf, o)

GetNextUpdate ==
    /\ pc = "acc" /\ op = "none"
    /\ \E o \in gnutls_x509_crl_get_next_update(handle, tree) :
         Return("get_next_update", NoBuf, o)

GetCrtCount ==
    /\ pc = "acc" /\ op = "none"
    /\ \E o \in gnutls_x509_crl_get_crt_count(handle, tree) :
         Return("get_crt_count", NoBuf, o)

GetCrtSerial ==
    /\ pc = "acc"
    /\ \E b \in FirstBufs, indx \in 0..1 :
         \E o \in gnutls_x509_crl_get_crt_serial(handle, tree, indx, b.buf,
                                                 b.size, UNSET) :
           Return("get_crt_serial",
                  [buf |-> b.buf, size |-> b.size, indx |-> indx], o)

GetRawIssuerDn ==
    /\ pc = "acc" /\ op = "none"
    /\ \E c \in CreateOutcomes :
         \E o \in gnutls_x509_crl_get_raw_issuer_dn(handle, tree, NullBuf, c) :
           Return("get_raw_issuer_dn", NoBuf, o)

Export ==
    /\ pc = "acc"
    /\ \E b \in FirstBufs, fmt \in Formats :
         \E o \in gnutls_x509_crl_export(handle, tree, fmt, b.buf, b.size) :
           Return("export", [buf |-> b.buf, size |-> b.size, format |-> fmt],
                  o)

Export2 ==
    /\ pc = "acc" /\ op = "none"
    /\ \E fmt \in Formats :
         \E o \in gnutls_x509_crl_export2(handle, tree, fmt, NullBuf) :
           Return("export2", NoBuf, o)

GetExtensionOid ==
    /\ pc = "acc"
    /\ \E b \in FirstBufs, indx \in 0..MaxExts :
         \E o \in gnutls_x509_crl_get_extension_oid(handle, tree, indx, b.buf,
                                                    b.size) :
           Return("get_extension_oid",
                  [buf |-> b.buf, size |-> b.size, indx |-> indx], o)

\* gnutls_x509_crl_import (handle, bytes, fmt) and gnutls_x509_crl_deinit
\* (handle) change the structure; nothing else of the caller's changes
Import ==
    /\ pc = "acc" /\ op = "none"
    /\ \E bytes \in Bufs(1), fmt \in Formats :
         LET m == gnutls_x509_crl_import(heap, handle, bytes, fmt, 0)
         IN /\ heap' = m.heap
            /\ tree' = IF m.ret = 0 THEN CrlOf(m.heap[handle].tree.der)
                       ELSE tree
            /\ op' = "import"
            /\ arg' = [buf |-> NullBuf, size |-> 0, data |-> bytes,
                       format |-> fmt]
            /\ out' = [tmp_frees |-> m.tmp_frees,
                        input_frees |-> m.input_frees]
                          @@ Outcome(m.ret, NullBuf, 0, m.adapter, FALSE)
    /\ UNCHANGED <<threads, trees, handle, inputs, pc, calls, reallocs, cflags, cap0, crl_max,
                   ptr, count, nocopy, ret, crls, arrSize, arrState, heap0,
                   ret1, max1, garbageDeinit, oob, size_out, crls_out, ret2>>

Deinit ==
    /\ pc = "acc" /\ op = "none"
    /\ LET d == gnutls_x509_crl_deinit(heap, handle)
       IN /\ heap' = d.heap
          /\ out' = Outcome(0, NullBuf, 0, d.adapter, FALSE)
    /\ op' = "deinit" /\ arg' = NoBuf
    /\ pc' = IF handle = NULL THEN "acc" ELSE "deinited"
    /\ UNCHANGED <<threads, trees, handle, tree, inputs, calls, reallocs, cflags, cap0,
                   crl_max, ptr, count, nocopy, ret, crls, arrSize, arrState,
                   heap0, ret1, max1, garbageDeinit, oob, size_out, crls_out,
                   ret2>>

-----------------------------------------------------------------------------

AccNext ==
    \/ GetSignature
    \/ GetVersion
    \/ GetNumber
    \/ GetExtensionInfo
    \/ GetExtensionData
    \/ GetAuthorityKeyGnSerial
    \/ GetAuthorityKeyId
    \/ GetIssuerDn
    \/ GetIssuerDnByOid
    \/ GetDnOid
    \/ GetIssuerDn2
    \/ GetSignatureAlgorithm
    \/ GetThisUpdate
    \/ GetNextUpdate
    \/ GetCrtCount
    \/ GetCrtSerial
    \/ GetRawIssuerDn
    \/ Export
    \/ Export2
    \/ GetExtensionOid
    \/ Import
    \/ Deinit

AccSpec == AccInit /\ [][AccNext]_vars

-----------------------------------------------------------------------------
(* Properties of the accessors *)

\* the last call was the accessor name on the valid handle and it returned
Called(name) == op = name /\ handle = VALID /\ pc = "acc"

\* the signature of the CRL, a whole number L >= 1 of bytes long
SigBytes == tree.signature.val
WholeSignature == tree.signature.unused = 0 /\ Len(SigBytes) >= 1

\* C11 (as stated): gnutls_x509_crl_get_signature on a valid handle whose
\* signature is L bytes long, called with a null buffer or with
\* *sizeof_sig < L, returns GNUTLS_E_SHORT_MEMORY_BUFFER, sets *sizeof_sig
\* to L and copies nothing; the next call with a buffer of that L bytes
\* succeeds, and the next call with L-1 bytes returns
\* GNUTLS_E_SHORT_MEMORY_BUFFER with the same L.  The code tests the size
\* only, never the pointer: a null buffer with *sizeof_sig >= L is handed
\* to the copy.
C11_SignatureNegotiation ==
    /\ [](op = "get_signature" /\ handle = VALID /\ WholeSignature
            /\ (arg.buf.null \/ arg.size < Len(SigBytes))
          => /\ pc = "acc"
             /\ out.ret = GNUTLS_E_SHORT_MEMORY_BUFFER
             /\ out.size = Len(SigBytes)
             /\ out.buf = arg.buf)
    /\ [][Called("get_signature") /\ WholeSignature
            /\ out.ret = GNUTLS_E_SHORT_MEMORY_BUFFER
            /\ op' = "get_signature" /\ ~arg'.buf.null
          => /\ arg'.size = out.size => out'.ret = 0
             /\ arg'.size = out.size - 1
                  => /\ out'.ret = GNUTLS_E_SHORT_MEMORY_BUFFER
                     /\ out'.size = out.size]_vars

\* C12 (as stated): when gnutls_x509_crl_get_signature succeeds on a
\* caller's buffer, the buffer holds the L signature bytes, nothing behind
\* them is written, and *sizeof_sig is L, also when the caller passed more
\* than L.  The code never writes *sizeof_sig on this path.
C12_SignatureSuccess ==
    Called("get_signature") /\ WholeSignature /\ ~arg.buf.null /\ out.ret = 0
    => /\ out.buf.bytes = Copy(arg.buf.bytes, SigBytes)
       /\ out.size = Len(SigBytes)

\* the content bytes of the CRL Number of the CRL
NumberBytes ==
    LET e == _gnutls_x509_crl_get_extension(tree, OID_CRL_NUMBER, 0, UNSET)
    IN ParseTLVs(e.data).items[1].val

\* C13 (as stated): when gnutls_x509_crl_get_number returns
\* GNUTLS_E_SHORT_MEMORY_BUFFER, the bytes of the caller's buffer are what
\* they were before the call and *ret_size is the length of the CRL
\* Number.  The code zeroes the whole buffer before it looks the
\* extension up.
C13_NumberShortBufferFrame ==
    Called("get_number") /\ out.ret = GNUTLS_E_SHORT_MEMORY_BUFFER
    => /\ out.buf = arg.buf
       /\ out.size = Len(NumberBytes)

\* the raw value of the extension the last call asked for
AskedValue == tree.exts[arg.indx + 1].extnValue

\* C14 (as stated): gnutls_x509_crl_get_extension_data for an index that
\* exists, called with a null buffer or with *sizeof_data smaller than the
\* length of the extension's value, returns GNUTLS_E_SHORT_MEMORY_BUFFER
\* and sets *sizeof_data to that length.  The code takes the adapter's
\* ASN1_MEM_ERROR, which is positive, for no error.
C14_ExtensionDataShortBuffer ==
    op = "get_extension_data" /\ handle = VALID
      /\ arg.indx < Len(tree.exts)
      /\ (arg.buf.null \/ arg.size < Len(AskedValue))
    => /\ pc = "acc"
       /\ out.ret = GNUTLS_E_SHORT_MEMORY_BUFFER
       /\ out.size = Len(AskedValue)

\* the nested tree of the Authority Key Identifier of the CRL, decoded
Aki ==
    DecodeAuthorityKeyIdentifier(
      _gnutls_x509_crl_get_extension(tree, OID_AUTHORITY_KEY_ID, 0,
                                     UNSET).data).tree
AkiDecodes ==
    LET e == _gnutls_x509_crl_get_extension(tree, OID_AUTHORITY_KEY_ID, 0,
                                            UNSET)
    IN /\ e.ret = 0 /\ Len(e.data) > 0
       /\ DecodeAuthorityKeyIdentifier(e.data).result = ASN1_SUCCESS

\* the last call got its nested tree and found the name it asked for
NameFound ==
    /\ Called("get_authority_key_gn_serial") /\ AkiDecodes
    /\ arg.create = "ok"
    /\ arg.seq < Len(Aki.names)
    /\ ~arg.buf.null /\ arg.size >= Len(Aki.names[arg.seq + 1])

\* C15 (as stated): in gnutls_x509_crl_get_authority_key_gn_serial, when
\* the name is found and the caller gives a serial buffer that is smaller
\* than authorityCertSerialNumber, the call returns
\* GNUTLS_E_SHORT_MEMORY_BUFFER with *serial_size set to the length needed;
\* when the field cannot be read the call returns an error.  The code
\* tests the adapter's result, never negative, with result < 0.
C15_SerialShortBuffer ==
    NameFound /\ ~arg.serial.null
    => /\ Aki.authorityCertSerialNumber.present
            /\ arg.serial_size < Len(Aki.authorityCertSerialNumber.val)
          => /\ out.ret = GNUTLS_E_SHORT_MEMORY_BUFFER
             /\ out.serial_size = Len(Aki.authorityCertSerialNumber.val)
       /\ ~Aki.authorityCertSerialNumber.present => out.ret < 0

\* the accessors under a caller that goes on with its loop over the
\* extensions as long as there is a next call to make
AccFairSpec ==
    AccSpec /\ WF_vars(GetExtensionInfo) /\ WF_vars(GetExtensionData)

\* the last call belongs to a loop over the extensions that began at index
\* 0 and passes a buffer no value outgrows; arg.indx is the number of
\* calls of the loop that returned 0
InExtensionLoop ==
    /\ op \in { "get_extension_info", "get_extension_data" }
    /\ handle = VALID
    /\ arg.from = 0 /\ ~arg.buf.null /\ arg.size = MaxSize

ExtensionLoopDone ==
    /\ InExtensionLoop
    /\ out.ret = GNUTLS_E_REQUESTED_DATA_NOT_AVAILABLE
    /\ arg.indx = Len(tree.exts)

\* C16: for a CRL of k extensions, gnutls_x509_crl_get_extension_info and
\* gnutls_x509_crl_get_extension_data with an adequate buffer return 0 for
\* every index below k and GNUTLS_E_REQUESTED_DATA_NOT_AVAILABLE for index
\* k, and the loop that raises the index from 0 until that result ends
\* after exactly k calls that returned 0.
C16_ExtensionLoopEnds ==
    /\ [](InExtensionLoop
          => /\ pc = "acc"
             /\ arg.indx <= Len(tree.exts)
             /\ arg.indx < Len(tree.exts) => out.ret = 0
             /\ arg.indx = Len(tree.exts)
                  => out.ret = GNUTLS_E_REQUESTED_DATA_NOT_AVAILABLE)
    /\ (InExtensionLoop ~> ExtensionLoopDone)

C16_Witness ==
    /\ ExtensionLoopDone /\ op = "get_extension_data"
    /\ Len(tree.exts) = MaxExts

\* the Authority Key Identifier of the CRL has the fields given and no other
AkiHasOnly(kid, issuer, serial) ==
    /\ AkiDecodes
    /\ Aki.keyIdentifier.present = kid
    /\ (Len(Aki.names) > 0) = issuer
    /\ Aki.authorityCertSerialNumber.present = serial

\* the caller's buffer is not null and no value outgrows it
Adequate(b, sz) == ~b.null /\ sz = MaxSize

\* C17: with nested trees that can be created and adequate buffers: for a
\* CRL whose Authority Key Identifier holds keyIdentifier only,
\* gnutls_x509_crl_get_authority_key_id returns 0 and the caller has the
\* identifier; for one that holds the issuer names and the serial only,
\* gnutls_x509_crl_get_authority_key_id returns
\* GNUTLS_E_X509_UNSUPPORTED_EXTENSION and
\* gnutls_x509_crl_get_authority_key_gn_serial returns 0 for sequence
\* number 0 and the caller has the first name and the serial.
C17_AuthorityKeyForms ==
    /\ Called("get_authority_key_id") /\ arg.create = "ok"
         /\ AkiHasOnly(TRUE, FALSE, FALSE) /\ Adequate(arg.buf, arg.size)
       => /\ out.ret = 0
          /\ out.size = Len(Aki.keyIdentifier.val)
          /\ out.buf.bytes = Copy(arg.buf.bytes, Aki.keyIdentifier.val)
    /\ op = "get_authority_key_id" /\ handle = VALID /\ arg.create = "ok"
         /\ AkiHasOnly(FALSE, TRUE, TRUE)
       => /\ pc = "acc"
          /\ out.ret = GNUTLS_E_X509_UNSUPPORTED_EXTENSION
    /\ Called("get_authority_key_gn_serial") /\ arg.create = "ok"
         /\ AkiHasOnly(FALSE, TRUE, TRUE) /\ arg.seq = 0
         /\ Adequate(arg.buf, arg.size)
         /\ Adequate(arg.serial, arg.serial_size)
       => /\ out.ret = 0
          /\ out.buf.bytes = Copy(arg.buf.bytes, Aki.names[1])
          /\ out.serial.bytes
               = Copy(arg.serial.bytes, Aki.authorityCertSerialNumber.val)

C17_Witness ==
    /\ Called("get_authority_key_gn_serial") /\ arg.create = "ok"
    /\ AkiHasOnly(FALSE, TRUE, TRUE) /\ arg.seq = 0
    /\ Adequate(arg.buf, arg.size) /\ Adequate(arg.serial, arg.serial_size)
    /\ out.ret = 0 /\ out.serial_size = MaxLen

\* the CRL has no Authority Key Identifier extension, or an empty one
AkiAbsentOrEmpty ==
    LET e == _gnutls_x509_crl_get_extension(tree, OID_AUTHORITY_KEY_ID, 0,
                                            UNSET)
    IN e.ret < 0 \/ Len(e.data) = 0

\* C18: when the CRL has no Authority Key Identifier extension or the value
\* of the extension is empty, gnutls_x509_crl_get_authority_key_id and
\* gnutls_x509_crl_get_authority_key_gn_serial return
\* GNUTLS_E_REQUESTED_DATA_NOT_AVAILABLE, create no nested tree and leave
\* the id, alt and serial buffers, the sizes and the type of the name as
\* the caller passed them.
C18_NoAuthorityKeyId ==
    op \in { "get_authority_key_id", "get_authority_key_gn_serial" }
      /\ handle = VALID /\ AkiAbsentOrEmpty
    => /\ pc = "acc"
       /\ out.ret = GNUTLS_E_REQUESTED_DATA_NOT_AVAILABLE
       /\ out.created = 0 /\ out.deleted = 0
       /\ out.buf = arg.buf /\ out.size = arg.size
       /\ out.alt_type = UNSET
       /\ op = "get_authority_key_gn_serial"
            => out.serial = arg.serial /\ out.serial_size = arg.serial_size

C18_Witness ==
    /\ Called("get_authority_key_gn_serial")
    /\ Len(tree.exts) = 2 /\ tree.exts[2].extnID = OID_AUTHORITY_KEY_ID
    /\ tree.exts[2].extnValue = <<>>
    /\ ~arg.buf.null /\ ~arg.serial.null
    /\ out.ret = GNUTLS_E_REQUESTED_DATA_NOT_AVAILABLE

\* the number that the content bytes of a DER INTEGER stand for (the
\* inverse of EncodeInt)
DecodeInt(val) == IF Len(val) = 1 THEN val[1] ELSE 256 * val[1] + val[2]

\* C19 (as stated): gnutls_x509_crl_get_version on a valid handle whose
\* version field holds the zero-based value v returns v + 1, and a result
\* that is no error code is at least 1.  The code returns the first content
\* byte of the INTEGER plus one, which is v + 1 only for v < 128.
C19_VersionPlusOne ==
    Called("get_version") /\ tree.version.present
    => /\ out.ret = DecodeInt(tree.version.val) + 1
       /\ out.ret >= 1

\* the operations a caller may invoke on a handle
PublicOps ==
    { "import", "deinit", "export", "export2", "get_issuer_dn",
      "get_issuer_dn_by_oid", "get_dn_oid", "get_issuer_dn2",
      "get_signature_algorithm", "get_signature", "get_version",
      "get_this_update", "get_next_update", "get_crt_count",
      "get_crt_serial", "get_raw_issuer_dn", "get_authority_key_id",
      "get_authority_key_gn_serial", "get_number", "get_extension_oid",
      "get_extension_info", "get_extension_data" }

\* C20: every public operation on a null handle returns before the
\* Structure Adapter is called and with the caller's outputs as they were:
\* gnutls_x509_crl_import, gnutls_x509_crl_export, gnutls_x509_crl_export2,
\* the get accessors, both Authority Key Identifier accessors and
\* gnutls_x509_crl_get_number return GNUTLS_E_INVALID_REQUEST, the two time
\* accessors return (time_t) -1, and gnutls_x509_crl_deinit frees nothing.
C20_NullHandleFailsFast ==
    handle = NULL /\ op # "none"
    => /\ op \in PublicOps
       /\ pc = "acc" /\ ~out.crashed
       /\ out.adapter = 0
       /\ heap = <<>>
       /\ out.buf = arg.buf /\ out.size = arg.size
       /\ op \in { "get_number", "get_extension_info", "get_crt_serial",
                   "get_authority_key_id", "get_authority_key_gn_serial" }
            => out.critical = UNSET
       /\ op \in { "get_authority_key_id", "get_authority_key_gn_serial" }
            => out.alt_type = UNSET /\ out.created = 0
       /\ op = "get_authority_key_gn_serial"
            => out.serial = arg.serial /\ out.serial_size = arg.serial_size
       /\ out.ret = IF op \in { "get_this_update", "get_next_update" } THEN -1
                    ELSE IF op = "deinit" THEN 0
                    ELSE GNUTLS_E_INVALID_REQUEST

C20_Witness ==
    /\ handle = NULL /\ op = "get_authority_key_gn_serial"
    /\ ~arg.buf.null /\ ~arg.serial.null /\ arg.size = MaxSize
    /\ out.ret = GNUTLS_E_INVALID_REQUEST

-----------------------------------------------------------------------------
(* Import and copy *)

\* the PEM codec accepts the bytes passed to the last import
PemDecodes == _gnutls_fbase64_decode(arg.data).result >= 0

\* C21: gnutls_x509_crl_import in PEM format releases the temporary DER
\* buffer of the PEM codec exactly once, whether the DER decode succeeds or
\* fails; it never releases the caller's input buffer; when the PEM codec
\* fails there is no temporary, no DER decode, and the codec's error is
\* returned.
C21_TemporaryReleasedOnce ==
    Called("import") /\ handle # NULL
    => /\ out.input_frees = 0
       /\ arg.format = GNUTLS_X509_FMT_PEM /\ PemDecodes
            => out.tmp_frees = 1 /\ out.adapter = 1
       /\ arg.format = GNUTLS_X509_FMT_PEM /\ ~PemDecodes
            => /\ out.tmp_frees = 0 /\ out.adapter = 0
               /\ out.ret = _gnutls_fbase64_decode(arg.data).result
               /\ out.ret < 0
       /\ arg.format = GNUTLS_X509_FMT_DER
            => out.tmp_frees = 0 /\ out.adapter = 1

C21_Witness ==
    /\ Called("import") /\ handle # NULL
    /\ arg.format = GNUTLS_X509_FMT_PEM /\ PemDecodes
    /\ out.ret = GNUTLS_E_ASN1_DER_ERROR /\ out.tmp_frees = 1

\* the operations that read an imported handle
Accessors == PublicOps \ { "import", "deinit" }

\* C22: no accessor changes the decoded tree of the handle: whatever the
\* call returns, the tree (and the structure of the handle) after the call
\* is the tree before it, hence the tree right after import.
C22_AccessorsLeaveTree ==
    [][handle = VALID /\ op' \in Accessors
         => tree' = tree /\ heap' = heap /\ handle' = handle]_vars

\* an accessor that builds and decodes a nested tree has returned
C22_Witness ==
    /\ Called("get_authority_key_id") /\ out.ret = 0 /\ out.created = 1
    /\ tree \in Trees /\ Len(tree.exts) > 0

\* C25: when the bit length of the encoded signature is not a multiple of
\* 8, gnutls_x509_crl_get_signature returns GNUTLS_E_CERTIFICATE_ERROR
\* whatever buffer and size the caller passed (a null buffer, a size of 0,
\* a size that would hold the signature), and leaves *sizeof_sig and the
\* buffer as they were.
C25_PartialByteSignature ==
    /\ Called("get_signature")
    /\ tree.signature.present
    /\ (8 * Len(SigBytes) - tree.signature.unused) % 8 # 0
    => /\ out.ret = GNUTLS_E_CERTIFICATE_ERROR
       /\ out.buf = arg.buf /\ out.size = arg.size
       /\ ~out.crashed

C25_Witness ==
    /\ Called("get_signature") /\ tree.signature.unused = 4
    /\ ~arg.buf.null /\ arg.size >= Len(SigBytes)
    /\ out.ret = GNUTLS_E_CERTIFICATE_ERROR

-----------------------------------------------------------------------------
(* Ownership in the Authority Key Identifier accessors *)

AkiCalled ==
    \/ Called("get_authority_key_id")
    \/ Called("get_authority_key_gn_serial")

\* every nested tree the call created it has deleted, once
NestedTreeReleased == out.created \in {0, 1} /\ out.deleted = out.created

\* the raw value, if obtained, has been released once
RawValueReleased == out.id_freed = out.id_obtained

\* C30 (as stated): on every exit path of
\* gnutls_x509_crl_get_authority_key_id and of
\* gnutls_x509_crl_get_authority_key_gn_serial the nested
\* AuthorityKeyIdentifier tree built by _get_authority_key_id is released
\* exactly once, and the raw extension value is released exactly once
\* whenever it was obtained.  The exit for a value of size 0 frees nothing,
\* so a value handed over as an owned buffer of no bytes is never released.
C30_AkiReleases ==
    AkiCalled => NestedTreeReleased /\ RawValueReleased

\* the part of C30 about the nested tree, which holds
C30_NestedTreeReleasedOnce ==
    AkiCalled => NestedTreeReleased

\* the part of C30 about the raw value when it is not empty, which holds
C30_NonEmptyValueReleasedOnce ==
    AkiCalled /\ ~AkiAbsentOrEmpty
    => out.id_obtained = 1 /\ out.id_freed = 1

-----------------------------------------------------------------------------
(* The PEM scan of gnutls_x509_crl_list_import *)

\* C26: when a PEM buffer passed to gnutls_x509_crl_list_import holds no
\* CRL boundary marker, the call returns GNUTLS_E_BASE64_DECODING_ERROR,
\* creates no handle, writes no slot and leaves *crl_max as the caller
\* passed it, for every capacity and both settings of the flags.
C26_NoMarkerFails ==
    Returned /\ format = GNUTLS_X509_FMT_PEM /\ NumMarkers(data) = 0
    => /\ ret = GNUTLS_E_BASE64_DECODING_ERROR
       /\ CallCreated = 0 /\ heap = <<>> /\ crls = <<>>
       /\ crl_max = cap0

C26_Witness ==
    /\ Returned /\ entry = "list_import" /\ format = GNUTLS_X509_FMT_PEM
    /\ NumMarkers(data) = 0 /\ Len(data) >= 2
    /\ cap0 >= 1 /\ Strict
    /\ ret = GNUTLS_E_BASE64_DECODING_ERROR

\* the buffers of the scan: up to one block more than the passes that are
\* taken one at a time, after bytes that are no block or a block that does
\* not decode, and before a marker cut short or a block that does not decode
ScanBufs ==
    { h \o RepValid(k) \o t :
        h \in { <<>>, <<"v">>, BadDerBlock },
        k \in 0..(FailWindow + 1),
        t \in { <<>>, <<"-">>, <<"-", "B">>, BadDerBlock } }

\* a caller of gnutls_x509_crl_list_import alone
ScanInit ==
    /\ data \in ScanBufs /\ format \in Formats
    /\ entry = "list_import" /\ cap \in 0..MaxCap
    /\ flags \in FlagSets
    /\ pc = "start"
    /\ calls = 0 /\ reallocs = 0
    /\ cflags = {} /\ cap0 = 0 /\ crl_max = 0
    /\ ptr = NOPTR /\ count = 0 /\ nocopy = 0 /\ ret = 0
    /\ crls = <<>> /\ arrSize = 0 /\ arrState = "none"
    /\ heap = <<>> /\ heap0 = 0 /\ ret1 = 0 /\ max1 = 0
    /\ garbageDeinit = FALSE /\ oob = FALSE
    /\ size_out = UNSET /\ crls_out = "unset" /\ ret2 = 0
    /\ handle = NULL /\ tree = <<>> /\ op = "none" /\ arg = <<>> /\ out = <<>>
    /\ threads = <<>> /\ trees = <<>>

ScanNext ==
    \/ CallListImport
    \/ ListImportDer
    \/ ListImportFind
    \/ ListImportIter
    \/ ListImportRest
    \/ ListImportExit
    \/ ListImportError
    \/ CallerRetry

\* the loop is run by the one thread of the call, which does not stop
ScanFairSpec ==
    /\ ScanInit /\ [][ScanNext]_vars
    /\ WF_vars(ListImportIter) /\ WF_vars(ListImportRest)

\* the PEM scan has begun
Scanning ==
    format = GNUTLS_X509_FMT_PEM /\ pc \in { "li_loop", "li_exit", "li_error" }

\* the passes through the loop body begun so far: the counted ones and the
\* one at ptr that was not counted (it is about to run, or it was left by
\* break or through the error label)
Iterations == IF ptr # NOPTR THEN count + 1 ELSE count

\* C27: the PEM scan loop of gnutls_x509_crl_list_import terminates for
\* every buffer: from one pass to the next the scan position ptr grows
\* strictly, it is always the offset of a boundary marker inside the
\* buffer, the passes are never more than the boundary markers of the
\* buffer, and the loop is left.
C27_ScanTerminates ==
    /\ [](Scanning
           => /\ Iterations <= NumMarkers(data)
              /\ ptr # NOPTR => ptr \in Markers(data)
              /\ ptr # NOPTR => ptr >= 0 /\ ptr + SepLen <= Len(data))
    /\ [][pc = "li_loop" /\ pc' = "li_loop" => ptr' > ptr /\ count' = count + 1]_vars
    /\ (pc = "li_loop" ~> pc # "li_loop")

\* the loop went three times round and ended at the end of the buffer
C27_Witness ==
    /\ pc = "li_exit" /\ format = GNUTLS_X509_FMT_PEM
    /\ count = 3 /\ NumMarkers(data) = 3 /\ ptr = NOPTR

-----------------------------------------------------------------------------
(* The handle array *)

\* C28: gnutls_x509_crl_list_import never writes a handle to a slot crls[i]
\* with i >= the capacity *crl_max the caller passed in: not in strict
\* mode, not in non-strict mode, not in DER format, and for any number of
\* blocks in the buffer.
C28_WritesWithinCapacity ==
    /\ ~oob
    /\ calls >= 1 => \A i \in DOMAIN crls : 0 <= i /\ i < arrSize
    /\ calls >= 1 /\ entry = "list_import"
         => arrSize = cap0 /\ \A i \in DOMAIN crls : i < cap0

\* a strict call on more blocks than slots filled every slot and no more
C28_Witness ==
    /\ Returned /\ entry = "list_import"
    /\ format = GNUTLS_X509_FMT_PEM /\ Strict
    /\ cap0 >= 1 /\ NumMarkers(data) > cap0
    /\ ret = GNUTLS_E_SHORT_MEMORY_BUFFER /\ nocopy = 1
    /\ DOMAIN crls = 0..(cap0 - 1)

\* gnutls_x509_crl_list_import2 has returned
Returned2 == pc = "li2_done"

\* C29: when gnutls_x509_crl_list_import2 fails (the allocation of the
\* array fails, its reallocation fails, or the fixed-capacity importer
\* returns an error on the first call or on the retry) the handle array it
\* allocated has been released, *crls is NULL and *size has not been
\* written; *size is written only on success.
C29_Import2FailureReleasesArray ==
    /\ Returned2 /\ ret2 < 0
         => /\ arrState \in { "none", "freed" }
            /\ arrState = "none" => calls = 0
            /\ crls_out = "null"
            /\ size_out = UNSET
    /\ size_out # UNSET
         => Returned2 /\ ret2 = 0 /\ arrState = "heap" /\ crls_out = "array"
    /\ entry = "list_import2" /\ ~Returned2 => size_out = UNSET

\* the retry of the regrown array failed on a block that does not decode
C29_Witness ==
    /\ Returned2 /\ calls = 2 /\ reallocs = 1
    /\ ret2 = GNUTLS_E_ASN1_DER_ERROR
    /\ arrState = "freed" /\ crls_out = "null" /\ size_out = UNSET

-----------------------------------------------------------------------------
(* Two threads that call the library on the handles they share *)

Threads == { 1, 2 }
Handles == { 1, 2 }
\* the handle that is imported into again and released; the other handle
\* keeps its list
Replaced == 1

\* the CertificateLists that are imported into the handles
TreeWithExtensions ==
    [BaseTree EXCEPT
       !.exts = << Extension(OID_AUTHORITY_KEY_ID, TRUE,
                             TLV(TAG.SEQUENCE,
                                 KeyIdField(1) \o IssuerField(1)
                                   \o SerialField(1))),
                   Extension(OID_CRL_NUMBER, FALSE,
                             TLV(TAG.INTEGER, Val(1))) >>]
TreeWithout ==
    [BaseTree EXCEPT !.version = Node("INTEGER", EncodeInt(0), 0),
                     !.signature = Node("BIT STRING", Val(1), 0),
                     !.issuer = Val(1),
                     !.revoked = <<>>]
SharedTrees == { TreeWithExtensions, TreeWithout }

\* the arguments of a call: buffers of the largest size a caller passes
CallArg ==
    [buf |-> Buf(MaxSize), size |-> MaxSize, indx |-> 0, seq |-> 0,
     oid |-> OID_X520_COMMON_NAME, serial |-> Buf(MaxSize),
     serial_size |-> MaxSize, format |-> GNUTLS_X509_FMT_DER,
     create |-> "ok"]

\* the accessor called name, applied to handle h with tree t: its outcomes
Run(name, h, t, a) ==
    CASE name = "get_issuer_dn" ->
           gnutls_x509_crl_get_issuer_dn(h, t, a.buf, a.size)
      [] name = "get_issuer_dn_by_oid" ->
           gnutls_x509_crl_get_issuer_dn_by_oid(h, t, a.oid, a.indx, a.buf,
                                                a.size)
      [] name = "get_dn_oid" ->
           gnutls_x509_crl_get_dn_oid(h, t, a.indx, a.buf, a.size)
      [] name = "get_issuer_dn2" ->
           gnutls_x509_crl_get_issuer_dn2(h, t, NullBuf)
      [] name = "get_signature_algorithm" ->
           gnutls_x509_crl_get_signature_algorithm(h, t)
      [] name = "get_signature" ->
           gnutls_x509_crl_get_signature(h, t, a.buf, a.size)
      [] name = "get_version" -> gnutls_x509_crl_get_version(h, t)
      [] name = "get_this_update" -> gnutls_x509_crl_get_this_update(h, t)
      [] name = "get_next_update" -> gnutls_x509_crl_get_next_update(h, t)
      [] name = "get_crt_count" -> gnutls_x509_crl_get_crt_count(h, t)
      [] name = "get_crt_serial" ->
           gnutls_x509_crl_get_crt_serial(h, t, a.indx, a.buf, a.size, UNSET)
      [] name = "get_raw_issuer_dn" ->
           gnutls_x509_crl_get_raw_issuer_dn(h, t, NullBuf, a.create)
      [] name = "export" ->
           gnutls_x509_crl_export(h, t, a.format, a.buf, a.size)
      [] name = "export2" -> gnutls_x509_crl_export2(h, t, a.format, NullBuf)
      [] name = "get_authority_key_id" ->
           gnutls_x509_crl_get_authority_key_id(h, t, a.buf, a.size, a.create)
      [] name = "get_authority_key_gn_serial" ->
           gnutls_x509_crl_get_authority_key_gn_serial(
             h, t, a.seq, a.buf, a.size, a.serial, a.serial_size, a.create)
      [] name = "get_number" ->
           gnutls_x509_crl_get_number(h, t, a.buf, a.size, UNSET)
      [] name = "get_extension_oid" ->
           gnutls_x509_crl_get_extension_oid(h, t, a.indx, a.buf, a.size)
      [] name = "get_extension_info" ->
           gnutls_x509_crl_get_extension_info(h, t, a.indx, a.buf, a.size,
                                              UNSET)
      [] name = "get_extension_data" ->
           gnutls_x509_crl_get_extension_data(h, t, a.indx, a.buf, a.size)

\* the operations that replace or release the structure of the handle
NeedsExclusion_None(name) == FALSE
NeedsExclusion(name) == name \in { "import", "deinit" }

\* thread u is inside a call on handle h
InCall(u, h) == threads[u].pc = "in" /\ threads[u].h = h

\* what the callers arrange: on one handle no call runs together with an
\* import or deinit
MayBegin(t, name, h) ==
    \A u \in Threads \ { t } :
       InCall(u, h)
       => ~NeedsExclusion(name) /\ ~NeedsExclusion(threads[u].op)

Idle ==
    [pc |-> "idle", op |-> "none", h |-> NULL, arg |-> CallArg,
     seen |-> <<>>]

ConcInit ==
    /\ data = <<>> /\ format = GNUTLS_X509_FMT_DER /\ flags = {}
    /\ entry = "threads" /\ cap = 0
    /\ pc = "threads"
    /\ calls = 0 /\ reallocs = 0
    /\ cflags = {} /\ cap0 = 0 /\ crl_max = 0
    /\ ptr = NOPTR /\ count = 0 /\ nocopy = 0 /\ ret = 0
    /\ crls = <<>> /\ arrSize = 0 /\ arrState = "none"
    /\ heap = <<>> /\ heap0 = 0 /\ ret1 = 0 /\ max1 = 0
    /\ garbageDeinit = FALSE /\ oob = FALSE
    /\ size_out = UNSET /\ crls_out = "unset" /\ ret2 = 0
    /\ handle = NULL /\ tree = <<>> /\ op = "none" /\ arg = <<>> /\ out = <<>>
    /\ threads = [t \in Threads |-> Idle]
    /\ trees \in { f \in [Handles -> { [live |-> TRUE, tree |-> x] :
                                            x \in SharedTrees }] :
                    \A h \in Handles \ { Replaced } :
                       f[h].tree = TreeWithExtensions }

\* what the threads do not touch
seqVars ==
    <<inputs, pc, calls, reallocs, cflags, cap0, crl_max, ptr, count, nocopy,
      ret, crls, arrSize, arrState, heap, heap0, ret1, max1, garbageDeinit,
      oob, size_out, crls_out, ret2, handle, tree>>

\* thread t enters a public operation on a handle that is allocated
Begin(t) ==
    /\ pc = "threads" /\ threads[t].pc = "idle"
    /\ \E name \in PublicOps, h \in Handles, x \in SharedTrees :
         /\ trees[h].live
         /\ name # "import" => x = TreeWithout
         /\ name \in Mutating => h = Replaced
         /\ MayBegin(t, name, h)
         /\ threads' = [threads EXCEPT ![t] =
                          [pc |-> "in", op |-> name, h |-> h,
                           arg |-> [tree |-> x] @@ CallArg,
                           seen |-> trees[h].tree]]
    /\ op' = "none" /\ arg' = <<>> /\ out' = <<>>
    /\ UNCHANGED <<trees, seqVars>>

\* thread t reads the tree of its handle, or replaces or releases it, and
\* returns: op, arg and out are the call that returned last and what it
\* gave its caller
End(t) ==
    /\ pc = "threads" /\ threads[t].pc = "in"
    /\ LET c == threads[t]
       IN /\ threads' = [threads EXCEPT ![t] = Idle]
          /\ op' = c.op
          /\ arg' = [h |-> c.h]
          /\ IF c.op = "import"
             THEN /\ trees' = [trees EXCEPT ![c.h].tree = c.arg.tree]
                  /\ out' = Outcome(0, NullBuf, 0, 1, FALSE)
             ELSE IF c.op = "deinit"
             THEN /\ trees' = [trees EXCEPT ![c.h].live = FALSE]
                  /\ out' = Outcome(0, NullBuf, 0, 1, FALSE)
             ELSE \E o \in Run(c.op, c.h, trees[c.h].tree, c.arg) :
                    /\ out' = o
                    /\ trees' = [trees EXCEPT ![c.h].tree =
                                   IF o.adapter > 0 /\ WritesHandleTree(c.op)
                                   THEN Overwritten(@) ELSE @]
    /\ UNCHANGED seqVars

ConcNext ==
    \/ \E t \in Threads : Begin(t)
    \/ \E t \in Threads : End(t)

ConcSpec == ConcInit /\ [][ConcNext]_vars

\* thread t returns from an accessor in this step
Returns(t) ==
    /\ threads[t].pc = "in" /\ threads'[t].pc = "idle"
    /\ threads[t].op \in Accessors

-----------------------------------------------------------------------------
(* Copying a CRL *)

IsInt(val) == Len(val) \in { 1, 2 }

DecodeExtension_NotCritical(item) ==
    LET f == ParseTLVs(item.val)
    IN [ok |-> TRUE,
        e |-> Extension(f.items[1].val, FALSE, f.items[Len(f.items)].val)]

DecodeExtension(item) ==
    LET f == ParseTLVs(item.val)
        n == Len(f.items)
    IN IF \/ item.tag # TAG.SEQUENCE \/ ~f.ok \/ n \notin { 2, 3 }
          \/ f.items[1].tag # TAG.OID
          \/ f.items[n].tag # TAG.OCTET_STRING
          \/ n = 3 /\ f.items[2] # [tag |-> TAG.BOOLEAN, val |-> <<255>>]
       THEN [ok |-> FALSE, e |-> <<>>]
       ELSE [ok |-> TRUE,
             e |-> Extension(f.items[1].val, n = 3, f.items[n].val)]

DecodeRevoked(item) ==
    LET f == ParseTLVs(item.val)
    IN IF \/ item.tag # TAG.SEQUENCE \/ ~f.ok \/ Len(f.items) # 2
          \/ f.items[1].tag # TAG.INTEGER
          \/ f.items[2].tag # TAG.TIME \/ ~IsInt(f.items[2].val)
       THEN [ok |-> FALSE, e |-> <<>>]
       ELSE [ok |-> TRUE,
             e |-> [userCertificate |-> f.items[1].val,
                    revocationDate |-> DecodeInt(f.items[2].val)]]

\* the elements of a SEQUENCE OF, each of them decoded
DecodeExtensions(val) ==
    LET f == ParseTLVs(val)
        d == [i \in 1..Len(f.items) |-> DecodeExtension(f.items[i])]
    IN [ok |-> f.ok /\ \A i \in 1..Len(f.items) : d[i].ok,
        l |-> [i \in 1..Len(f.items) |-> d[i].e]]
DecodeRevokedList(val) ==
    LET f == ParseTLVs(val)
        d == [i \in 1..Len(f.items) |-> DecodeRevoked(f.items[i])]
    IN [ok |-> f.ok /\ \A i \in 1..Len(f.items) : d[i].ok,
        l |-> [i \in 1..Len(f.items) |-> d[i].e]]

BadCrl == [ok |-> FALSE, tree |-> <<>>]

\* tbsCertList from its elements, and the signature element if there is one
DecodeTbs(items, sig) ==
    LET hasVersion == items # <<>> /\ items[1].tag = TAG.INTEGER
        f == IF hasVersion THEN Tail(items) ELSE items
        n == Len(f)
    IN IF \/ n \notin { 5, 6 }
          \/ f[1].tag # TAG.OID \/ ~IsInt(f[1].val)
          \/ f[2].tag # TAG.NAME
          \/ f[3].tag # TAG.TIME \/ ~IsInt(f[3].val)
          \/ f[4].tag # TAG.TIME \/ ~IsInt(f[4].val)
          \/ f[5].tag # TAG.SEQUENCE
          \/ n = 6 /\ (f[6].tag # TAG.EXTENSIONS \/ f[6].val = <<>>)
          \/ sig # <<>> /\ (sig[1].tag # TAG.BIT_STRING \/ sig[1].val = <<>>)
       THEN BadCrl
       ELSE LET revoked == DecodeRevokedList(f[5].val)
                exts == IF n = 6 THEN DecodeExtensions(f[6].val)
                        ELSE [ok |-> TRUE, l |-> <<>>]
            IN IF ~revoked.ok \/ ~exts.ok THEN BadCrl
               ELSE [ok |-> TRUE,
                     tree |->
                       [version |->
                          IF hasVersion
                          THEN Node("INTEGER", items[1].val, 0)
                          ELSE NoNode(ASN1_ELEMENT_NOT_FOUND),
                        signature |->
                          IF sig # <<>>
                          THEN Node("BIT STRING", Tail(sig[1].val),
                                    Head(sig[1].val))
                          ELSE NoNode(ASN1_ELEMENT_NOT_FOUND),
                        exts |-> exts.l,
                        issuer |-> f[2].val,
                        algorithm |-> DecodeInt(f[1].val),
                        thisUpdate |-> DecodeInt(f[3].val),
                        nextUpdate |-> DecodeInt(f[4].val),
                        revoked |-> revoked.l]]

\* the Structure Adapter's decoder on the DER of a CertificateList: the
\* tree the bytes encode, or a failure
DecodeCrl(der) ==
    LET top == ParseTLVs(der)
    IN IF ~top.ok \/ Len(top.items) # 1 \/ top.items[1].tag # TAG.SEQUENCE
       THEN BadCrl
       ELSE LET outer == ParseTLVs(top.items[1].val)
            IN IF \/ ~outer.ok \/ Len(outer.items) \notin { 1, 2 }
                  \/ outer.items[1].tag # TAG.SEQUENCE
               THEN BadCrl
               ELSE LET tbs == ParseTLVs(outer.items[1].val)
                    IN IF ~tbs.ok THEN BadCrl
                       ELSE DecodeTbs(tbs.items, Tail(outer.items))

\* what the decoder does when it is given well-formed bytes: it fills the
\* structure, or fails
DecodeOutcomes == { "ok", "decoding_fails" }

\* gnutls_x509_crl_import (crl, &tmp, GNUTLS_X509_FMT_DER) on the bytes of
\* an encoded tree, t being the tree of crl: lines 810-860 without the PEM
\* branch, need_free staying 0
ImportDer(crl, t, der, o) ==
    IF crl = NULL
    THEN [ret |-> GNUTLS_E_INVALID_REQUEST, tree |-> t, adapter |-> 0]
    ELSE LET d == DecodeCrl(der)
         IN IF o # "ok" \/ ~d.ok
            THEN [ret |-> _gnutls_asn2err(ASN1_DER_ERROR), tree |-> t,
                  adapter |-> 1]
            ELSE [ret |-> 0, tree |-> d.tree, adapter |-> 1]

\* a handle that gnutls_x509_crl_init has made and nothing was imported into
EmptyCrl ==
    [version |-> NoNode(ASN1_ELEMENT_NOT_FOUND),
     signature |-> NoNode(ASN1_ELEMENT_NOT_FOUND),
     exts |-> <<>>, issuer |-> <<>>, algorithm |-> 0, thisUpdate |-> 0,
     nextUpdate |-> 0, revoked |-> <<>>]

\* the callers of _gnutls_x509_crl_cpy (dest, src): src holds any list,
\* dest is new or holds a list; id names the structure a handle owns
CpyInit ==
    /\ data = <<>> /\ format = GNUTLS_X509_FMT_DER /\ flags = {}
    /\ entry = "cpy" /\ cap = 0
    /\ pc = "cpy"
    /\ calls = 0 /\ reallocs = 0
    /\ cflags = {} /\ cap0 = 0 /\ crl_max = 0
    /\ ptr = NOPTR /\ count = 0 /\ nocopy = 0 /\ ret = 0
    /\ crls = <<>> /\ arrSize = 0 /\ arrState = "none"
    /\ heap = <<>> /\ heap0 = 0 /\ ret1 = 0 /\ max1 = 0
    /\ garbageDeinit = FALSE /\ oob = FALSE
    /\ size_out = UNSET /\ crls_out = "unset" /\ ret2 = 0
    /\ handle = NULL /\ tree = <<>> /\ op = "none"
    /\ threads = <<>>
    /\ \E ps, pd \in { NULL, VALID }, ts \in Trees,
          td \in { EmptyCrl, TreeWithout } :
         trees = [src |-> [p |-> ps, id |-> 1, tree |-> ts],
                  dest |-> [p |-> pd, id |-> 2, tree |-> td]]
    /\ arg = trees
    /\ out = [ret |-> 0, tmp |-> NullBuf, frees |-> 0, exported |-> FALSE,
              imports |-> 0]

cpyFrame ==
    <<threads, arg, inputs, calls, reallocs, cflags, cap0, crl_max, ptr,
      count, nocopy, ret, crls, arrSize, arrState, heap, heap0, ret1, max1,
      garbageDeinit, oob, size_out, crls_out, ret2, handle, tree, op>>

\* lines 1432-1434: ret = gnutls_x509_crl_export2 (src, DER, &tmp)
CpyExport ==
    /\ pc = "cpy"
    /\ \E o \in gnutls_x509_crl_export2(trees.src.p, trees.src.tree,
                                         GNUTLS_X509_FMT_DER, NullBuf) :
         /\ trees' = [trees EXCEPT !.src.tree =
                        IF o.adapter > 0 /\ WritesHandleTree("export2")
                        THEN Overwritten(@) ELSE @]
         /\ out' = [out EXCEPT !.ret = o.ret, !.tmp = o.buf,
                               !.exported = o.ret >= 0]
         /\ pc' = IF o.ret < 0 THEN "cpy_done" ELSE "cpy_import"
    /\ UNCHANGED cpyFrame

\* line 1436: ret = gnutls_x509_crl_import (dest, &tmp, DER)
CpyImport ==
    /\ pc = "cpy_import"
    /\ \E o \in DecodeOutcomes :
         LET m == ImportDer(trees.dest.p, trees.dest.tree, out.tmp.bytes, o)
         IN /\ trees' = [trees EXCEPT !.dest.tree = m.tree]
            /\ out' = [out EXCEPT !.ret = m.ret, !.imports = @ + 1]
    /\ pc' = "cpy_free"
    /\ UNCHANGED cpyFrame

\* line 1438: gnutls_free (tmp.data)
CpyFree ==
    /\ pc = "cpy_free"
    /\ out' = [out EXCEPT !.frees = @ + 1]
    /\ pc' = "cpy_return"
    /\ UNCHANGED <<trees, cpyFrame>>

\* lines 1440-1446
CpyReturn ==
    /\ pc = "cpy_return"
    /\ out' = [out EXCEPT !.ret = IF @ < 0 THEN @ ELSE 0]
    /\ pc' = "cpy_done"
    /\ UNCHANGED <<trees, cpyFrame>>

CpyNext ==
    \/ CpyExport
    \/ CpyImport
    \/ CpyFree
    \/ CpyReturn

CpySpec == CpyInit /\ [][CpyNext]_vars

\* the arguments with which the accessors of the two handles are compared
CpyArgs ==
    { [CallArg EXCEPT !.indx = i, !.seq = q, !.format = f,
                      !.buf = b.buf, !.size = b.size] :
        i \in 0..MaxExts, q \in 0..1, f \in Formats,
        b \in { [buf |-> Buf(n), size |-> n] : n \in { 1, MaxSize } } }

\* C24: _gnutls_x509_crl_cpy exports src to a buffer of its own, imports
\* that buffer into dest once and then frees it, once, whether the import
\* succeeded or failed, and frees nothing when the export failed; src keeps
\* its handle, structure and tree, dest keeps a structure of its own, and
\* after a copy that returned 0 every accessor has the same outcomes on
\* dest as on src.
C24_CopyIsRoundTrip ==
    /\ trees.src = arg.src
    /\ trees.dest.id = arg.dest.id /\ trees.dest.id # trees.src.id
    /\ out.frees <= 1 /\ out.imports <= 1
    /\ pc \in { "cpy_free", "cpy_return" }
         => /\ out.imports = 1
            /\ out.tmp = Datum(EncodeCrl(trees.src.tree, GNUTLS_X509_FMT_DER))
    /\ pc = "cpy_done"
         => /\ out.frees = (IF out.exported THEN 1 ELSE 0)
            /\ out.imports = out.frees
            /\ out.ret <= 0
            /\ out.ret = 0
                 => /\ out.exported
                    /\ \A name \in Accessors, a \in CpyArgs :
                         Run(name, trees.dest.p, trees.dest.tree, a)
                           = Run(name, trees.src.p, trees.src.tree, a)

\* a list with a critical Authority Key Identifier was copied into a new
\* handle; and a copy whose import failed after the export
C24_Witness ==
    /\ pc = "cpy_done" /\ out.ret = 0 /\ out.frees = 1
    /\ arg.dest.tree = EmptyCrl /\ trees.dest.tree # EmptyCrl
    /\ Len(trees.src.tree.exts) = 2
    /\ trees.src.tree.exts[2].extnID = OID_AUTHORITY_KEY_ID

C24_WitnessImportFails ==
    /\ pc = "cpy_done" /\ out.ret < 0 /\ out.exported /\ out.frees = 1

====
